---- MODULE Spec2Model ----
(***************************************************************************)
(* FreelancePay: the pipeline of src/main.py, from the validation of the    *)
(* repositories to the report, with its time estimator, commit correlator, *)
(* sprint detection, classifier and narrative.  Hours are exact rationals  *)
(* <<num, den>>; strings that the code searches (ids, titles, types,       *)
(* priorities, statuses, messages, keywords) are sequences of              *)
(* one-character strings, so that lower(), split and the substring test    *)
(* `in` are computed and not assumed.                                      *)
(*                                                                         *)
(* Spec is one fetched task through process_task_commits and the analysis, *)
(* over every task; SpecMain is main() over a few issues and repositories; *)
(* SpecReport is the run to the report over every state of the AI          *)
(* collaborators; SpecGit, SpecSprint, SpecRepos and SpecValue are one     *)
(* function each.                                                          *)
(***************************************************************************)
EXTENDS Integers, Sequences, FiniteSets, TLC

VARIABLES tasks, categories, uncategorized, metrics, pc, git_commits, git_time,
          sprint_fields, sprint_result,
          repo_paths, repos, corr_task_id, corr_multi, corr_task,
          issues, log, tracker, ai, report,
          value_title, value_category, value_result

vars == <<tasks, categories, uncategorized, metrics, pc, git_commits, git_time,
          sprint_fields, sprint_result,
          repo_paths, repos, corr_task_id, corr_multi, corr_task,
          issues, log, tracker, ai, report,
          value_title, value_category, value_result>>

\* the variables by the part of the program that writes them
git_vars == <<git_commits, git_time>>
sprint_vars == <<sprint_fields, sprint_result>>
corr_vars == <<corr_task_id, corr_multi, corr_task>>
world_vars == <<repo_paths, repos, issues, log, tracker>>
report_vars == <<ai, report>>
value_vars == <<value_title, value_category, value_result>>
analysis_vars == <<categories, uncategorized, metrics>>

(***************************************************************************)
(* Bounds of the model.                                                    *)
(***************************************************************************)
\* longest commit list handed to get_final_time_estimate in Spec
MaxTaskCommits == 2
\* longest commit list handed to estimate_git_commit_time in SpecGit
MaxCommits == 3
\* most repository paths on the command line in SpecRepos and SpecMain
MaxRepos == 2
\* most issues in the tracker's answer in SpecMain
MaxIssues == 2
\* most issues in the tracker's answer in SpecReport
MaxReportIssues == 3

(***************************************************************************)
(* Python float arithmetic, modelled exactly as rationals in lowest terms. *)
(***************************************************************************)
RECURSIVE GCD(_, _)
GCD(a, b) == IF b = 0 THEN a ELSE GCD(b, a % b)

Abs(x) == IF x < 0 THEN -x ELSE x

\* n / d, d # 0
Rat(n, d) ==
    LET g == GCD(Abs(n), Abs(d))
        s == IF d < 0 THEN -1 ELSE 1
    IN  <<s * (n \div g), s * (d \div g)>>

RMul(x, y) == Rat(x[1] * y[1], x[2] * y[2])
RDiv(x, y) == Rat(x[1] * y[2], x[2] * y[1])
RAdd(x, y) == Rat(x[1] * y[2] + y[1] * x[2], x[2] * y[2])
RSub(x, y) == Rat(x[1] * y[2] - y[1] * x[2], x[2] * y[2])
RLt(x, y) == x[1] * y[2] < y[1] * x[2]
RLe(x, y) == x[1] * y[2] <= y[1] * x[2]
RMax(x, y) == IF RLt(x, y) THEN y ELSE x
RMin(x, y) == IF RLt(y, x) THEN y ELSE x

\* the float literal w.t, t one decimal digit
Dec(w, t) == Rat(10 * w + t, 10)

(***************************************************************************)
(* Python str operations used by the heuristics.                           *)
(***************************************************************************)
LowerChar(c) ==
    CASE c = "A" -> "a"
      [] c = "B" -> "b"
      [] c = "C" -> "c"
      [] c = "D" -> "d"
      [] c = "E" -> "e"
      [] c = "F" -> "f"
      [] c = "G" -> "g"
      [] c = "H" -> "h"
      [] c = "I" -> "i"
      [] c = "J" -> "j"
      [] c = "K" -> "k"
      [] c = "L" -> "l"
      [] c = "M" -> "m"
      [] c = "N" -> "n"
      [] c = "O" -> "o"
      [] c = "P" -> "p"
      [] c = "Q" -> "q"
      [] c = "R" -> "r"
      [] c = "S" -> "s"
      [] c = "T" -> "t"
      [] c = "U" -> "u"
      [] c = "V" -> "v"
      [] c = "W" -> "w"
      [] c = "X" -> "x"
      [] c = "Y" -> "y"
      [] c = "Z" -> "z"
      [] OTHER -> c

\* str.lower()
Lower(s) == [i \in 1..Len(s) |-> LowerChar(s[i])]

\* needle in hay
Contains(needle, hay) ==
    \E i \in 1..(Len(hay) - Len(needle) + 1) :
        \A j \in 1..Len(needle) : hay[i + j - 1] = needle[j]

\* any(keyword in text for keyword in keywords)
AnyKeyword(keywords, text) ==
    \E k \in 1..Len(keywords) : Contains(keywords[k], text)

(***************************************************************************)
(* Inputs: the tracker's answer and the commits found for a task.          *)
(***************************************************************************)
Titles ==
    { <<"F","i","x"," ","l","o","g","i","n"," ","r","e","d","i","r","e","c","t"," ","i","s","s","u","e">>,
      <<"S","y","s","t","e","m"," ","a","p","i"," ","f","i","x">>,
      <<"C","h","e","c","k","o","u","t"," ","a","p","i"," ","u","p","d","a","t","e">>,
      <<"W","r","i","t","e"," ","d","o","c","s">>,
      <<"D","e","s","i","g","n"," ","a","u","t","h"," ","t","o","k","e","n">>,
      <<"S","p","e","c"," ","r","e","v","i","e","w">>,
      <<"C","r","e","a","t","e"," ","n","e","w"," ","f","e","a","t","u","r","e">>,
      <<"A","d","m","i","n"," ","c","r","u","d">> }

Types ==
    { <<"E","p","i","c">>,
      <<"S","t","o","r","y">>,
      <<"T","a","s","k">>,
      <<"B","u","g">>,
      <<"B","u","g"," ","S","u","b","-","t","a","s","k">>,
      <<"I","m","p","r","o","v","e","m","e","n","t">> }

Priorities ==
    { <<"H","i","g","h","e","s","t">>,
      <<"C","r","i","t","i","c","a","l">>,
      <<"H","i","g","h">>,
      <<"M","e","d","i","u","m">> }

\* the fields of an issue that no heuristic reads: <<key, status name>>
Identities == { <<<<"P","R","O","J","-","5">>, <<"D","o","n","e">>>>, <<<<"P","R","O","J","-","5","0">>, <<"I","n"," ","P","r","o","g","r","e","s","s">>>> }

\* timespent, aggregatetimespent, timeoriginalestimate in seconds
TimeSpentSeconds == { 0, 10800 }
AggregateSeconds == { 0, 18000 }
EstimateSeconds == { 0, 36000 }

\* authored times of commits, in minutes
TaskCommitTimes == { 0, 60, 10000 }
GitCommitTimes == { 0, 10, 29, 30, 60, 119, 120, 600, 1440, 1441, 2880, 10000 }

SeqsUpTo(S, n) == UNION { [1..k -> S] : k \in 0..n }

\* a commit of the window that mentions PROJ-50, and so PROJ-5 as well
Commit(t) ==
    [ hexsha |-> "c0ffee", message |-> <<"P","R","O","J","-","5","0"," ","w","o","r","k">>, authored_datetime |-> t,
      in_window |-> TRUE ]

TaskCommitLists == SeqsUpTo({ Commit(t) : t \in TaskCommitTimes }, MaxTaskCommits)
GitCommitLists == SeqsUpTo({ Commit(t) : t \in GitCommitTimes }, MaxCommits) \ { <<>> }

NoTime == <<-1, 1>>
Zero == <<0, 1>>

(***************************************************************************)
(* Sprint detection.  A value of the tracker's sprint field is a record:    *)
(* kind is none, str, int, list or obj; an obj may have a name and a state  *)
(* attribute, and text is what str() returns for it.                        *)
(***************************************************************************)
PySimple(kind, text, num) == [kind |-> kind, text |-> text, num |-> num]

PyNone == PySimple("none", <<"N","o","n","e">>, 0)
PyStr(s) == PySimple("str", s, 0)
PyInt(n, digits) == PySimple("int", digits, n)

PyValue(simple, name_present, name, state_present, state, items) ==
    [ kind |-> simple.kind, text |-> simple.text, num |-> simple.num,
      name_present |-> name_present, name |-> name,
      state_present |-> state_present, state |-> state, items |-> items ]

\* a value without attributes and without items
Plain(simple) == PyValue(simple, FALSE, PyNone, FALSE, PyNone, <<>>)

PyObj(repr, name_present, name, state_present, state) ==
    PyValue(PySimple("obj", repr, 0), name_present, name, state_present, state, <<>>)

PyList(items) == PyValue(PySimple("list", <<>>, 0), FALSE, PyNone, FALSE, PyNone, items)

\* bool(v)
Truthy(v) ==
    CASE v.kind = "none" -> FALSE
      [] v.kind = "str" -> v.text # <<>>
      [] v.kind = "int" -> v.num # 0
      [] v.kind = "list" -> v.items # <<>>
      [] OTHER -> TRUE

SprintActive == PyObj(<<"<","S","p","r","i","n","t"," ","A",">">>, TRUE, PyStr(<<"S","p","r","i","n","t"," ","A">>), TRUE, PyStr(<<"A","C","T","I","V","E">>))
SprintClosed == PyObj(<<"<","S","p","r","i","n","t"," ","C",">">>, TRUE, PyStr(<<"S","p","r","i","n","t"," ","C">>), TRUE, PyStr(<<"C","L","O","S","E","D">>))

\* what one candidate field of an issue may hold
SprintFieldShapes ==
    { Plain(PyNone),
      Plain(PyStr(<<>>)),
      PyList(<<>>),
      Plain(PyStr(<<"S","p","r","i","n","t"," ","7">>)),
      Plain(PyInt(7, <<"7">>)),
      SprintActive,
      PyList(<<SprintActive, SprintClosed>>),
      PyObj(<<"<","S","p","r","i","n","t"," ","N",">">>, TRUE, PyStr(<<"S","p","r","i","n","t"," ","N">>), FALSE, PyNone),
      PyObj(<<"<","S","p","r","i","n","t",">">>, TRUE, PyNone, FALSE, PyNone),
      PyObj(<<"<","S","p","r","i","n","t"," ","E",">">>, TRUE, PyStr(<<>>), TRUE, PyStr(<<"A","C","T","I","V","E">>)),
      PyList(<<Plain(PyStr(<<"x","[","s","t","a","t","e","=","O","P","E","N",",","n","a","m","e","=","B","]">>))>>) }

sprint_field_candidates == << "sprint", "customfield_10020", "customfield_10010", "customfield_10001" >>

\* a returned pair, or the exception that left the function
SprintPair(info, status) == [exc |-> "none", info |-> info, status |-> status]
SprintRaise(exc) == [exc |-> exc, info |-> PyNone, status |-> "Unknown"]

map_sprint_state(state) ==
    IF state \in { PyStr(<<"C","L","O","S","E","D">>), PyStr(<<"C","O","M","P","L","E","T","E">>) } THEN "Closed"
    ELSE IF state \in { PyStr(<<"A","C","T","I","V","E">>), PyStr(<<"O","P","E","N">>) } THEN "Active"
    ELSE "Future"

\* sprint_info is a str here
parse_sprint_state_from_string(sprint_info) ==
    IF Contains(<<"s","t","a","t","e","=","C","L","O","S","E","D">>, sprint_info) \/ Contains(<<"s","t","a","t","e","=","C","O","M","P","L","E","T","E">>, sprint_info)
    THEN "Closed"
    ELSE IF Contains(<<"s","t","a","t","e","=","A","C","T","I","V","E">>, sprint_info) \/ Contains(<<"s","t","a","t","e","=","O","P","E","N">>, sprint_info)
    THEN "Active"
    ELSE "Future"

\* `'state=CLOSED' in sprint_info` raises TypeError unless sprint_info is a str
parse_sprint_object(sprint_obj) ==
    LET sprint_info == IF sprint_obj.name_present THEN sprint_obj.name
                       ELSE PyStr(sprint_obj.text)
    IN  IF sprint_obj.state_present
        THEN SprintPair(sprint_info, map_sprint_state(sprint_obj.state))
        ELSE IF sprint_info.kind # "str"
        THEN SprintRaise("TypeError")
        ELSE SprintPair(sprint_info, parse_sprint_state_from_string(sprint_info.text))

\* try_extract_sprint_from_field with an except clause for AttributeError only
try_extract_sprint_from_field_narrow_except(sprint_field) ==
    IF ~Truthy(sprint_field) THEN SprintPair(PyNone, "Unknown")
    ELSE IF sprint_field.kind = "list"
    THEN parse_sprint_object(sprint_field.items[Len(sprint_field.items)])
    ELSE IF sprint_field.kind = "str"
    THEN SprintPair(PySimple("str", sprint_field.text, 0), "Active")
    ELSE IF sprint_field.name_present
    THEN parse_sprint_object(sprint_field)
    ELSE SprintPair(PyNone, "Unknown")

\* sprint_field is getattr(issue.fields, field_name, None)
try_extract_sprint_from_field(sprint_field) ==
    LET caught(r) == IF r.exc \in { "AttributeError", "TypeError" }
                     THEN SprintPair(PyNone, "Unknown")
                     ELSE r
    IN  IF ~Truthy(sprint_field) THEN SprintPair(PyNone, "Unknown")
        ELSE IF sprint_field.kind = "list"
        THEN caught(parse_sprint_object(sprint_field.items[Len(sprint_field.items)]))
        ELSE IF sprint_field.kind = "str"
        THEN SprintPair(PySimple("str", sprint_field.text, 0), "Active")
        ELSE IF sprint_field.name_present
        THEN caught(parse_sprint_object(sprint_field))
        ELSE SprintPair(PyNone, "Unknown")

\* fields[k] is the issue's value for sprint_field_candidates[k]
RECURSIVE detect_sprint_from(_, _)
detect_sprint_from(fields, k) ==
    IF k > Len(sprint_field_candidates) THEN SprintPair(PyNone, "Unknown")
    ELSE LET r == try_extract_sprint_from_field(fields[k])
         IN  IF r.exc # "none" THEN r
             ELSE IF Truthy(r.info) THEN r
             ELSE detect_sprint_from(fields, k + 1)

detect_sprint_info(fields) == detect_sprint_from(fields, 1)

NoSprintResult == [exc |-> "none", info |-> PyNone, status |-> "unset"]

SprintIdle ==
    /\ sprint_fields = <<>>
    /\ sprint_result = NoSprintResult

(***************************************************************************)
(* TaskRecord Normalizer.                                                  *)
(***************************************************************************)
extract_time_fields(time_spent_seconds, time_estimate_seconds, aggregate_time_seconds) ==
    [ jira_time_spent |-> IF time_spent_seconds # 0 THEN Rat(time_spent_seconds, 3600) ELSE Zero,
      jira_time_estimate |-> IF time_estimate_seconds # 0 THEN Rat(time_estimate_seconds, 3600) ELSE Zero,
      jira_aggregate_time |-> IF aggregate_time_seconds # 0 THEN Rat(aggregate_time_seconds, 3600) ELSE Zero ]

\* a date field of an issue: nothing, a date (as a day number), or text
\* that datetime.fromisoformat rejects
DateNone == [kind |-> "none", day |-> 0]
DateOn(day) == [kind |-> "date", day |-> day]
DateUnparseable == [kind |-> "unparseable", day |-> 0]

\* --start-date and --end-date as day numbers, --assignee
StartDay == 10
EndDay == 20
TargetAssignee == <<"d","e","v","@","e","x","a","m","p","l","e",".","c","o","m">>

\* issue.fields.assignee
NoAssignee == [present |-> FALSE, emailAddress |-> <<>>, name |-> <<>>, displayName |-> <<>>]
Assignee(emailAddress, name, displayName) ==
    [ present |-> TRUE, emailAddress |-> emailAddress, name |-> name,
      displayName |-> displayName ]
Dev == Assignee(<<"d","e","v","@","e","x","a","m","p","l","e",".","c","o","m">>, <<"d","e","v">>, <<"D","e","v"," ","E","l","o","p","e","r">>)
Other == Assignee(<<"o","t","h","e","r","@","e","x","a","m","p","l","e",".","c","o","m">>, <<"o","t","h","e","r">>, <<"S","o","m","e"," ","O","n","e"," ","E","l","s","e">>)

parse_assignee_info(current_assignee, target_assignee) ==
    IF ~current_assignee.present THEN FALSE
    ELSE target_assignee \in { current_assignee.emailAddress, current_assignee.name,
                               current_assignee.displayName }

check_date_in_range(date_field, start_date, end_date) ==
    IF date_field.kind = "date"
    THEN start_date <= date_field.day /\ date_field.day <= end_date
    ELSE FALSE

is_task_in_date_range(issue, start_date, end_date) ==
    LET dates == <<issue.created, issue.updated, issue.resolved>>
    IN  IF \E k \in 1..3 : dates[k].kind # "none"
                           /\ check_date_in_range(dates[k], start_date, end_date)
        THEN TRUE
        ELSE IF \A k \in 1..3 : dates[k].kind = "none" THEN TRUE
        ELSE FALSE

\* an issue of the tracker's answer; priority and status are None or the
\* name of the object, sprint holds the values of sprint_field_candidates
Issue(key, summary, issuetype, priority, status, assignee, seconds, dates, sprint) ==
    [ key |-> key, summary |-> summary, issuetype |-> issuetype,
      priority |-> priority, status |-> status, assignee |-> assignee,
      timespent |-> seconds[1], timeoriginalestimate |-> seconds[2],
      aggregatetimespent |-> seconds[3],
      created |-> dates[1], updated |-> dates[2], resolved |-> dates[3],
      sprint |-> sprint ]

NoSprintFields == [k \in 1..Len(sprint_field_candidates) |-> Plain(PyNone)]

\* absent key of the task dict
NoRepoSources == << <<<<>>, -1>> >>
NoCategory == <<>>

\* the task dict built by fetch_tasks (the dates it copies are read by
\* nothing); commits, repo_sources and time are set later, and
\* business_category is a key that only these later stages could add
TaskRecord(id, title, type, priority, status, sprint, time_info) ==
    [ id |-> id, title |-> title, type |-> type, priority |-> priority,
      status |-> status,
      sprint_info |-> sprint.info, sprint_status |-> sprint.status,
      assignee_email |-> TargetAssignee,
      jira_time_spent |-> time_info.jira_time_spent,
      jira_time_estimate |-> time_info.jira_time_estimate,
      jira_aggregate_time |-> time_info.jira_aggregate_time,
      commits |-> <<>>, repo_sources |-> NoRepoSources, time |-> NoTime,
      business_category |-> NoCategory ]

\* the loop of fetch_tasks from the k-th issue on; raised when
\* detect_sprint_info lets an exception out
RECURSIVE fetch_tasks_from(_, _, _)
fetch_tasks_from(found, k, ts) ==
    IF k > Len(found) THEN [raised |-> FALSE, tasks |-> ts]
    ELSE LET issue == found[k]
             sprint == detect_sprint_info(issue.sprint)
         IN  IF ~parse_assignee_info(issue.assignee, TargetAssignee)
             THEN fetch_tasks_from(found, k + 1, ts)
             ELSE IF sprint.exc # "none" THEN [raised |-> TRUE, tasks |-> ts]
             ELSE IF ~is_task_in_date_range(issue, StartDay, EndDay)
             THEN fetch_tasks_from(found, k + 1, ts)
             ELSE fetch_tasks_from(found, k + 1, Append(ts,
                      TaskRecord(issue.key, issue.summary, issue.issuetype,
                          IF issue.priority.kind # "none" THEN issue.priority.text
                          ELSE <<"M","e","d","i","u","m">>,
                          IF issue.status.kind # "none" THEN issue.status.text
                          ELSE <<"U","n","k","n","o","w","n">>,
                          sprint,
                          extract_time_fields(issue.timespent, issue.timeoriginalestimate,
                                              issue.aggregatetimespent))))

\* an issue as the fallback query returns it: only the fields summary,
\* issuetype and priority were asked for, getattr finds nothing else
MinimalFields(issue) ==
    Issue(issue.key, issue.summary, issue.issuetype, issue.priority, PyNone, NoAssignee,
          <<0, 0, 0>>, <<DateNone, DateNone, DateNone>>, NoSprintFields)

\* the two calls of jira.search_issues: the second one, outside the try,
\* is made when the first raised
search_issues(tracker_state, found) ==
    CASE tracker_state = "ok" -> [raised |-> FALSE, issues |-> found]
      [] tracker_state = "primary_fails" ->
             [raised |-> FALSE, issues |-> [k \in 1..Len(found) |-> MinimalFields(found[k])]]
      [] OTHER -> [raised |-> TRUE, issues |-> <<>>]

fetch_tasks(tracker_state, found) ==
    LET answer == search_issues(tracker_state, found)
    IN  IF answer.raised THEN [raised |-> TRUE, tasks |-> <<>>]
        ELSE fetch_tasks_from(answer.issues, 1, <<>>)

\* one issue of the assignee, updated inside the date range
AssignedIssues ==
    { Issue(ident[1], title, type, PyStr(priority), PyStr(ident[2]), Dev, <<s, e, a>>,
            <<DateOn(StartDay - 5), DateOn(StartDay + 5), DateNone>>, NoSprintFields) :
        ident \in Identities, title \in Titles, type \in Types, priority \in Priorities,
        s \in TimeSpentSeconds, e \in EstimateSeconds, a \in AggregateSeconds }

\* the issues the tracker may answer with in SpecMain
TrackerIssues ==
    { Issue(<<"P","R","O","J","-","5">>, <<"F","i","x"," ","l","o","g","i","n"," ","r","e","d","i","r","e","c","t"," ","i","s","s","u","e">>, <<"B","u","g">>, PyNone, PyStr(<<"D","o","n","e">>), Dev,
            <<0, 0, 0>>, <<DateOn(StartDay + 5), DateNone, DateNone>>, NoSprintFields),
      Issue(<<"P","R","O","J","-","5","0">>, <<"C","r","e","a","t","e"," ","n","e","w"," ","f","e","a","t","u","r","e">>, <<"S","t","o","r","y">>, PyStr(<<"H","i","g","h">>),
            PyStr(<<"I","n"," ","P","r","o","g","r","e","s","s">>), Dev,
            <<10800, 0, 0>>, <<DateOn(StartDay - 5), DateOn(EndDay), DateNone>>,
            [NoSprintFields EXCEPT ![2] = PyList(<<SprintActive, SprintClosed>>)]),
      Issue(<<"P","R","O","J","-","7">>, <<"A","d","m","i","n"," ","c","r","u","d">>, <<"T","a","s","k">>, PyStr(<<"M","e","d","i","u","m">>), PyStr(<<"C","l","o","s","e","d">>), Dev,
            <<0, 0, 0>>, <<DateUnparseable, DateNone, DateNone>>, NoSprintFields),
      Issue(<<"P","R","O","J","-","8">>, <<"W","r","i","t","e"," ","d","o","c","s">>, <<"T","a","s","k">>, PyStr(<<"M","e","d","i","u","m">>), PyStr(<<"C","L","O","S","E","D">>), Dev,
            <<0, 0, 0>>, <<DateNone, DateNone, DateNone>>, NoSprintFields),
      Issue(<<"P","R","O","J","-","9">>, <<"S","p","e","c"," ","r","e","v","i","e","w">>, <<"E","p","i","c">>, PyStr(<<"H","i","g","h","e","s","t">>), PyNone, Other,
            <<0, 36000, 0>>, <<DateOn(StartDay), DateNone, DateNone>>, NoSprintFields),
      Issue(<<"P","R","O","J","-","6">>, <<"S","y","s","t","e","m"," ","a","p","i"," ","f","i","x">>, <<"I","m","p","r","o","v","e","m","e","n","t">>, PyStr(<<"C","r","i","t","i","c","a","l">>),
            PyStr(<<"T","o"," ","D","o">>), Dev,
            <<0, 0, 0>>, <<DateOn(StartDay - 9), DateOn(EndDay + 10), DateNone>>,
            NoSprintFields) }

(***************************************************************************)
(* Commit Correlator.  A repository is what git.Repo(path) finds: state is *)
(* invalid when git.Repo raises; fails_for holds the task ids for which    *)
(* iter_commits raises; in_window marks the commits iter_commits(since,    *)
(* until) yields.                                                          *)
(***************************************************************************)
RepoCommit(hexsha, message, authored, in_window) ==
    [ hexsha |-> hexsha, message |-> message, authored_datetime |-> authored,
      in_window |-> in_window ]

PathApi == <<"/","w","/","a","p","i">>
PathWeb == <<"/","w","/","w","e","b">>
PathOtherApi == <<"/","x","/","a","p","i">>

RepoPaths == { PathApi, PathWeb, PathOtherApi }

CorrTaskIds == { <<"P","R","O","J","-","5">>, <<"P","R","O","J","-","5","0">>, <<"P","R","O","J","-","7">> }

\* the commits of the three repositories
RepoContent(path) ==
    CASE path = PathApi ->
             << RepoCommit("abc123", <<"P","R","O","J","-","5"," ","f","i","x"," ","b","u","g">>, 0, TRUE),
                RepoCommit("def456", <<"u","n","r","e","l","a","t","e","d">>, 30, TRUE) >>
      [] path = PathWeb ->
             << RepoCommit("b1b1b1", <<"P","R","O","J","-","5","0"," ","a","d","d">>, 60, TRUE),
                RepoCommit("b2b2b2", <<"P","R","O","J","-","5"," ","o","l","d">>, 10, FALSE) >>
      [] OTHER ->
             << RepoCommit("c1c1c1", <<"P","R","O","J","-","5"," ","P","R","O","J","-","7"," ","b","o","t","h">>, 5, TRUE) >>

\* a repository as git.Repo(path) finds it
Repository(state, fails_for, commits) ==
    [state |-> state, fails_for |-> fails_for, commits |-> commits]

RepoWorlds ==
    { [p \in RepoPaths |-> Repository(w[p].state, w[p].fails_for, RepoContent(p))] :
        w \in [ RepoPaths -> [ state : { "ok", "invalid" },
                               fails_for : { {}, { <<"P","R","O","J","-","5">> } } ] ] }

\* repo_path.split('/')[-1]
LastSegment(path) ==
    LET slashes == { i \in 1..Len(path) : path[i] = "/" }
        last == CHOOSE i \in slashes : \A j \in slashes : j <= i
    IN  IF slashes = {} THEN path ELSE SubSeq(path, last + 1, Len(path))

\* fetch_commits matching the id only at the start of the message
fetch_commits_prefix_only(commits, task_id) ==
    SelectSeq(commits, LAMBDA c : /\ c.in_window
                                  /\ Len(task_id) <= Len(c.message)
                                  /\ SubSeq(c.message, 1, Len(task_id)) = task_id)

\* [c for c in repo.iter_commits(since=start_date, until=end_date) if task_id in c.message]
fetch_commits(commits, task_id) ==
    SelectSeq(commits, LAMBDA c : c.in_window /\ Contains(task_id, c.message))

\* git.Repo(path) or the iteration raises
AccessRaises(world, path, task_id) ==
    world[path].state = "invalid" \/ task_id \in world[path].fails_for

\* d[key] = value on a dict kept as a sequence of <<key, value>> in insertion order
DictSet(d, key, value) ==
    IF \E j \in 1..Len(d) : d[j][1] = key
    THEN [j \in 1..Len(d) |-> IF d[j][1] = key THEN <<key, value>> ELSE d[j]]
    ELSE Append(d, <<key, value>>)

\* the loop of fetch_commits_from_multiple_repos from the k-th path on;
\* skipped lists the paths a warning was printed for
RECURSIVE fetch_from_repos(_, _, _, _, _)
fetch_from_repos(paths, task_id, world, k, acc) ==
    IF k > Len(paths) THEN acc
    ELSE IF AccessRaises(world, paths[k], task_id)
    THEN fetch_from_repos(paths, task_id, world, k + 1,
             [acc EXCEPT !.skipped = Append(@, paths[k])])
    ELSE LET repo_name == LastSegment(paths[k])
             commits == fetch_commits(world[paths[k]].commits, task_id)
         IN  IF commits # <<>>
             THEN fetch_from_repos(paths, task_id, world, k + 1,
                      [acc EXCEPT !.commits = @ \o commits,
                                  !.repo_sources = DictSet(@, repo_name, Len(commits))])
             ELSE fetch_from_repos(paths, task_id, world, k + 1, acc)

\* nothing fetched yet
NoCorrResult == [raised |-> FALSE, commits |-> <<>>, repo_sources |-> <<>>, skipped |-> <<>>]

fetch_commits_from_multiple_repos(paths, task_id, world) ==
    fetch_from_repos(paths, task_id, world, 1, NoCorrResult)

\* fetch_task_commits with the single-repository count keyed by the whole path
fetch_task_commits_keyed_by_path(paths, task_id, world) ==
    IF Len(paths) = 1
    THEN IF AccessRaises(world, paths[1], task_id)
         THEN [NoCorrResult EXCEPT !.raised = TRUE]
         ELSE LET commits == fetch_commits(world[paths[1]].commits, task_id)
              IN  [ NoCorrResult EXCEPT
                      !.commits = commits,
                      !.repo_sources = IF commits # <<>>
                                       THEN << <<paths[1], Len(commits)>> >>
                                       ELSE <<>> ]
    ELSE fetch_commits_from_multiple_repos(paths, task_id, world)

\* the body of the loop of process_task_commits for one task: the commits
\* and repo_sources it stores, or raised when the single-repository branch
\* lets the exception out
fetch_task_commits(paths, task_id, world) ==
    IF Len(paths) = 1
    THEN IF AccessRaises(world, paths[1], task_id)
         THEN [NoCorrResult EXCEPT !.raised = TRUE]
         ELSE LET commits == fetch_commits(world[paths[1]].commits, task_id)
              IN  [ NoCorrResult EXCEPT
                      !.commits = commits,
                      !.repo_sources = IF commits # <<>>
                                       THEN << <<LastSegment(paths[1]), Len(commits)>> >>
                                       ELSE <<>> ]
    ELSE fetch_commits_from_multiple_repos(paths, task_id, world)

CorrIdle ==
    /\ corr_task_id = <<>>
    /\ corr_multi = NoCorrResult
    /\ corr_task = NoCorrResult

\* no repository, no tracker
WorldIdle ==
    /\ repo_paths = <<>>
    /\ repos = [p \in RepoPaths |-> Repository("ok", {}, <<>>)]
    /\ issues = <<>>
    /\ log = <<>>
    /\ tracker = "ok"

(***************************************************************************)
(* Time Estimator.                                                         *)
(***************************************************************************)
high_complexity_keywords ==
    << <<"i","n","t","e","g","r","a","t","i","o","n">>,
       <<"m","i","g","r","a","t","i","o","n">>,
       <<"r","e","f","a","c","t","o","r">>,
       <<"a","r","c","h","i","t","e","c","t","u","r","e">>,
       <<"s","e","c","u","r","i","t","y">>,
       <<"p","e","r","f","o","r","m","a","n","c","e">>,
       <<"o","p","t","i","m","i","z","a","t","i","o","n">>,
       <<"a","l","g","o","r","i","t","h","m">>,
       <<"c","o","m","p","l","e","x">>,
       <<"s","y","s","t","e","m">> >>

medium_complexity_keywords ==
    << <<"f","e","a","t","u","r","e">>,
       <<"i","m","p","l","e","m","e","n","t","a","t","i","o","n">>,
       <<"e","n","h","a","n","c","e","m","e","n","t">>,
       <<"w","o","r","k","f","l","o","w">>,
       <<"p","r","o","c","e","s","s">>,
       <<"v","a","l","i","d","a","t","i","o","n">>,
       <<"a","u","t","h","e","n","t","i","c","a","t","i","o","n">>,
       <<"d","a","t","a","b","a","s","e">>,
       <<"a","p","i">> >>

simple_keywords ==
    << <<"f","i","x">>,
       <<"u","p","d","a","t","e">>,
       <<"m","i","n","o","r">>,
       <<"t","e","x","t">>,
       <<"s","t","y","l","i","n","g">>,
       <<"c","o","p","y">>,
       <<"s","i","m","p","l","e">> >>

base_time_keywords ==
    << <<"r","e","s","e","a","r","c","h">>,
       <<"a","n","a","l","y","s","i","s">>,
       <<"p","l","a","n","n","i","n","g">>,
       <<"d","e","s","i","g","n">>,
       <<"s","p","e","c">> >>

Authored(commits) == { commits[i].authored_datetime : i \in 1..Len(commits) }
MinOf(S) == CHOOSE x \in S : \A y \in S : x <= y
MaxOf(S) == CHOOSE x \in S : \A y \in S : y <= x

\* estimate_git_commit_time with the two-hour boundary on the wrong side
estimate_git_commit_time_le_two(commits) ==
    IF Len(commits) = 1
    THEN Dec(1, 0)
    ELSE LET first == MinOf(Authored(commits))
             last == MaxOf(Authored(commits))
             hours == Rat(last - first, 60)
             n == Rat(Len(commits), 1)
         IN  IF RLt(hours, Dec(0, 5))
             THEN RMax(RMul(n, Dec(0, 5)), Dec(1, 0))
             ELSE IF RLe(hours, Dec(2, 0))
             THEN RMax(RMul(hours, Dec(1, 2)), Dec(1, 5))
             ELSE IF RLt(Dec(24, 0), hours)
             THEN LET days == RDiv(hours, Dec(24, 0))
                      commits_per_day == RDiv(n, days)
                  IN  RMin(RMul(commits_per_day, Dec(2, 0)), Dec(8, 0))
             ELSE RMin(RMax(RMul(hours, Dec(1, 3)), Dec(2, 0)), Dec(8, 0))

\* estimate_git_commit_time without the cap of 8.0 on a span of 2 to 24 hours
estimate_git_commit_time_uncapped(commits) ==
    IF Len(commits) = 1
    THEN Dec(1, 0)
    ELSE LET first == MinOf(Authored(commits))
             last == MaxOf(Authored(commits))
             hours == Rat(last - first, 60)
             n == Rat(Len(commits), 1)
         IN  IF RLt(hours, Dec(0, 5))
             THEN RMax(RMul(n, Dec(0, 5)), Dec(1, 0))
             ELSE IF RLt(hours, Dec(2, 0))
             THEN RMax(RMul(hours, Dec(1, 2)), Dec(1, 5))
             ELSE IF RLt(Dec(24, 0), hours)
             THEN LET days == RDiv(hours, Dec(24, 0))
                      commits_per_day == RDiv(n, days)
                  IN  RMin(RMul(commits_per_day, Dec(2, 0)), Dec(8, 0))
             ELSE RMax(RMul(hours, Dec(1, 3)), Dec(2, 0))

estimate_git_commit_time(commits) ==
    IF Len(commits) = 1
    THEN Dec(1, 0)
    ELSE LET first == MinOf(Authored(commits))
             last == MaxOf(Authored(commits))
             hours == Rat(last - first, 60)
             n == Rat(Len(commits), 1)
         IN  IF RLt(hours, Dec(0, 5))
             THEN RMax(RMul(n, Dec(0, 5)), Dec(1, 0))
             ELSE IF RLt(hours, Dec(2, 0))
             THEN RMax(RMul(hours, Dec(1, 2)), Dec(1, 5))
             ELSE IF RLt(Dec(24, 0), hours)
             THEN LET days == RDiv(hours, Dec(24, 0))
                      commits_per_day == RDiv(n, days)
                  IN  RMin(RMul(commits_per_day, Dec(2, 0)), Dec(8, 0))
             ELSE RMin(RMax(RMul(hours, Dec(1, 3)), Dec(2, 0)), Dec(8, 0))

\* get_complexity_multiplier with the simple keywords tested first
get_complexity_multiplier_simple_first(task_title, task_type) ==
    LET title_lower == Lower(task_title)
        type_lower == Lower(task_type)
    IN  IF AnyKeyword(simple_keywords, title_lower) THEN Dec(1, 0)
        ELSE IF AnyKeyword(high_complexity_keywords, title_lower) THEN Dec(1, 8)
        ELSE IF AnyKeyword(medium_complexity_keywords, title_lower) THEN Dec(1, 4)
        ELSE IF Contains(<<"s","t","o","r","y">>, type_lower)
                \/ Contains(<<"e","p","i","c">>, type_lower) THEN Dec(1, 6)
        ELSE Dec(1, 2)

get_complexity_multiplier(task_title, task_type) ==
    LET title_lower == Lower(task_title)
        type_lower == Lower(task_type)
    IN  IF AnyKeyword(high_complexity_keywords, title_lower) THEN Dec(1, 8)
        ELSE IF AnyKeyword(medium_complexity_keywords, title_lower) THEN Dec(1, 4)
        ELSE IF AnyKeyword(simple_keywords, title_lower) THEN Dec(1, 0)
        ELSE IF Contains(<<"s","t","o","r","y">>, type_lower)
                \/ Contains(<<"e","p","i","c">>, type_lower) THEN Dec(1, 6)
        ELSE Dec(1, 2)

\* get_priority_multiplier matching 'high' as a substring, tested first
get_priority_multiplier_substring(task_priority) ==
    LET priority_lower == Lower(task_priority)
    IN  IF Contains(<<"h","i","g","h">>, priority_lower) THEN Dec(1, 1)
        ELSE IF priority_lower \in { <<"h","i","g","h","e","s","t">>,
                                     <<"c","r","i","t","i","c","a","l">> } THEN Dec(1, 3)
        ELSE Dec(1, 0)

get_priority_multiplier(task_priority) ==
    LET priority_lower == Lower(task_priority)
    IN  IF priority_lower \in { <<"h","i","g","h","e","s","t">>,
                                <<"c","r","i","t","i","c","a","l">> } THEN Dec(1, 3)
        ELSE IF priority_lower \in { <<"h","i","g","h">> } THEN Dec(1, 1)
        ELSE Dec(1, 0)

get_minimum_task_time(task_type) ==
    LET type_lower == Lower(task_type)
    IN  IF Contains(<<"e","p","i","c">>, type_lower) THEN Dec(8, 0)
        ELSE IF Contains(<<"s","t","o","r","y">>, type_lower) THEN Dec(4, 0)
        ELSE IF Contains(<<"t","a","s","k">>, type_lower) THEN Dec(2, 0)
        ELSE IF Contains(<<"b","u","g">>, type_lower) THEN Dec(3, 0)
        ELSE Dec(2, 0)

\* get_base_task_time with the type tested before the title keywords
get_base_task_time_type_first(task_title, task_type) ==
    LET type_lower == Lower(task_type)
        title_lower == Lower(task_title)
    IN  IF Contains(<<"e","p","i","c">>, type_lower) THEN Dec(6, 0)
        ELSE IF Contains(<<"s","t","o","r","y">>, type_lower) THEN Dec(3, 0)
        ELSE IF AnyKeyword(base_time_keywords, title_lower) THEN Dec(4, 0)
        ELSE Dec(1, 5)

get_base_task_time(task_title, task_type) ==
    LET type_lower == Lower(task_type)
        title_lower == Lower(task_title)
    IN  IF AnyKeyword(base_time_keywords, title_lower) THEN Dec(4, 0)
        ELSE IF Contains(<<"e","p","i","c">>, type_lower) THEN Dec(6, 0)
        ELSE IF Contains(<<"s","t","o","r","y">>, type_lower) THEN Dec(3, 0)
        ELSE Dec(1, 5)

\* estimate_realistic_time without the type minimum
estimate_realistic_time_no_floor(commits, task_title, task_type, task_priority) ==
    IF commits = <<>>
    THEN RMul(get_base_task_time(task_title, task_type), Dec(0, 3))
    ELSE LET git_t == estimate_git_commit_time(commits)
             complexity_multiplier == get_complexity_multiplier(task_title, task_type)
             priority_multiplier == get_priority_multiplier(task_priority)
             realistic_multiplier ==
                 RAdd(RAdd(Dec(2, 5), RSub(complexity_multiplier, Dec(1, 0))),
                      RSub(priority_multiplier, Dec(1, 0)))
         IN  RMul(git_t, realistic_multiplier)

\* estimate_realistic_time returning the hours above the type minimum
estimate_realistic_time_above_minimum(commits, task_title, task_type, task_priority) ==
    IF commits = <<>>
    THEN RMul(get_base_task_time(task_title, task_type), Dec(0, 3))
    ELSE LET git_t == estimate_git_commit_time(commits)
             complexity_multiplier == get_complexity_multiplier(task_title, task_type)
             priority_multiplier == get_priority_multiplier(task_priority)
             realistic_multiplier ==
                 RAdd(RAdd(Dec(2, 5), RSub(complexity_multiplier, Dec(1, 0))),
                      RSub(priority_multiplier, Dec(1, 0)))
             realistic_time == RMul(git_t, realistic_multiplier)
             min_time == get_minimum_task_time(task_type)
         IN  RSub(realistic_time, min_time)

\* estimate_realistic_time crediting nothing to a task without commits
estimate_realistic_time_nothing_uncommitted(commits, task_title, task_type, task_priority) ==
    IF commits = <<>>
    THEN Zero
    ELSE RMax(RMul(estimate_git_commit_time(commits), Dec(2, 5)),
              get_minimum_task_time(task_type))

estimate_realistic_time(commits, task_title, task_type, task_priority) ==
    IF commits = <<>>
    THEN RMul(get_base_task_time(task_title, task_type), Dec(0, 3))
    ELSE LET git_t == estimate_git_commit_time(commits)
             complexity_multiplier == get_complexity_multiplier(task_title, task_type)
             priority_multiplier == get_priority_multiplier(task_priority)
             realistic_multiplier ==
                 RAdd(RAdd(Dec(2, 5), RSub(complexity_multiplier, Dec(1, 0))),
                      RSub(priority_multiplier, Dec(1, 0)))
             realistic_time == RMul(git_t, realistic_multiplier)
             min_time == get_minimum_task_time(task_type)
         IN  RMax(realistic_time, min_time)

\* get_final_time_estimate with the aggregate time tested before the logged time
get_final_time_estimate_aggregate_first(task, commits) ==
    IF RLt(Zero, task.jira_aggregate_time) THEN task.jira_aggregate_time
    ELSE IF RLt(Zero, task.jira_time_spent) THEN task.jira_time_spent
    ELSE IF RLt(Zero, task.jira_time_estimate)
         THEN IF commits # <<>>
              THEN task.jira_time_estimate
              ELSE RMul(task.jira_time_estimate, Dec(0, 2))
    ELSE estimate_realistic_time(commits, task.title, task.type, task.priority)

\* get_final_time_estimate with the partial credit on the wrong branch
get_final_time_estimate_credit_swapped(task, commits) ==
    IF RLt(Zero, task.jira_time_spent) THEN task.jira_time_spent
    ELSE IF RLt(Zero, task.jira_aggregate_time) THEN task.jira_aggregate_time
    ELSE IF RLt(Zero, task.jira_time_estimate)
         THEN IF commits = <<>>
              THEN task.jira_time_estimate
              ELSE RMul(task.jira_time_estimate, Dec(0, 2))
    ELSE estimate_realistic_time(commits, task.title, task.type, task.priority)

\* get_final_time_estimate that keeps a time already stored on the task
get_final_time_estimate_keeps_stored(task, commits) ==
    IF task.time # NoTime THEN task.time
    ELSE IF RLt(Zero, task.jira_time_spent) THEN task.jira_time_spent
    ELSE IF RLt(Zero, task.jira_aggregate_time) THEN task.jira_aggregate_time
    ELSE IF RLt(Zero, task.jira_time_estimate)
         THEN IF commits # <<>>
              THEN task.jira_time_estimate
              ELSE RMul(task.jira_time_estimate, Dec(0, 2))
    ELSE estimate_realistic_time(commits, task.title, task.type, task.priority)

get_final_time_estimate(task, commits) ==
    IF RLt(Zero, task.jira_time_spent) THEN task.jira_time_spent
    ELSE IF RLt(Zero, task.jira_aggregate_time) THEN task.jira_aggregate_time
    ELSE IF RLt(Zero, task.jira_time_estimate)
         THEN IF commits # <<>>
              THEN task.jira_time_estimate
              ELSE RMul(task.jira_time_estimate, Dec(0, 2))
    ELSE estimate_realistic_time(commits, task.title, task.type, task.priority)

(***************************************************************************)
(* Business Classifier.                                                    *)
(***************************************************************************)
revenue_generation_keywords ==
    << <<"d","i","s","c","o","u","n","t">>,
       <<"c","o","u","p","o","n">>,
       <<"c","a","r","t">>,
       <<"p","u","r","c","h","a","s","e">>,
       <<"p","a","y","m","e","n","t">>,
       <<"c","h","e","c","k","o","u","t">>,
       <<"b","i","l","l","i","n","g">> >>

user_experience_keywords ==
    << <<"l","o","g","i","n">>,
       <<"s","e","s","s","i","o","n">>,
       <<"r","e","d","i","r","e","c","t","i","o","n">>,
       <<"t","h","u","m","b","n","a","i","l">>,
       <<"t","h","e","m","e">>,
       <<"t","e","m","p","l","a","t","e">>,
       <<"u","i">>,
       <<"u","x">> >>

security_compliance_keywords ==
    << <<"s","e","c","u","r","i","t","y">>,
       <<"t","o","k","e","n">>,
       <<"c","s","r","f">>,
       <<"c","o","o","k","i","e">>,
       <<"a","c","c","e","s","s">>,
       <<"a","u","t","h">>,
       <<"v","a","l","i","d","a","t","i","o","n">> >>

operational_efficiency_keywords ==
    << <<"a","d","m","i","n">>,
       <<"c","r","u","d">>,
       <<"f","i","l","t","e","r">>,
       <<"m","a","n","a","g","e","m","e","n","t">>,
       <<"c","r","o","n">>,
       <<"a","u","t","o","m","a","t","i","o","n">> >>

platform_stability_keywords ==
    << <<"b","u","g">>,
       <<"f","i","x">>,
       <<"e","r","r","o","r">>,
       <<"i","s","s","u","e">>,
       <<"s","t","o","r","a","g","e">>,
       <<"p","e","r","f","o","r","m","a","n","c","e">> >>

feature_expansion_keywords ==
    << <<"n","e","w">>,
       <<"a","d","d">>,
       <<"i","m","p","l","e","m","e","n","t">>,
       <<"c","r","e","a","t","e">>,
       <<"f","e","a","t","u","r","e">>,
       <<"s","t","o","r","y">> >>

\* the dict of get_business_categories, in insertion order
get_business_categories ==
    << [ key |-> "revenue_generation", keywords |-> revenue_generation_keywords,
         impact |-> "Revenue & Sales", tasks |-> <<>> ],
       [ key |-> "user_experience", keywords |-> user_experience_keywords,
         impact |-> "User Experience", tasks |-> <<>> ],
       [ key |-> "security_compliance", keywords |-> security_compliance_keywords,
         impact |-> "Security & Compliance", tasks |-> <<>> ],
       [ key |-> "operational_efficiency", keywords |-> operational_efficiency_keywords,
         impact |-> "Operational Efficiency", tasks |-> <<>> ],
       [ key |-> "platform_stability", keywords |-> platform_stability_keywords,
         impact |-> "Platform Stability", tasks |-> <<>> ],
       [ key |-> "feature_expansion", keywords |-> feature_expansion_keywords,
         impact |-> "Feature Expansion", tasks |-> <<>> ] >>

\* the search text without the type
TaskText_title_only(task) == Lower(task.title)

\* task_text = f"{task['title']} {task['type']}".lower()
TaskText(task) == Lower(task.title \o <<" ">> \o task.type)

\* the inner loop without its break: every matching category gets the task
RECURSIVE AppendToEveryMatch(_, _, _)
AppendToEveryMatch(task, cats, k) ==
    IF k > Len(cats) THEN cats
    ELSE IF AnyKeyword(cats[k].keywords, TaskText(task))
         THEN AppendToEveryMatch(task, [cats EXCEPT ![k].tasks = Append(@, task)], k + 1)
         ELSE AppendToEveryMatch(task, cats, k + 1)

\* the inner loop over categories.items(): append to the first category
\* whose keywords match and break; cats unchanged when none matches
RECURSIVE AppendToFirstMatch(_, _, _)
AppendToFirstMatch(task, cats, k) ==
    IF k > Len(cats) THEN cats
    ELSE IF AnyKeyword(cats[k].keywords, TaskText(task))
         THEN [cats EXCEPT ![k].tasks = Append(@, task)]
         ELSE AppendToFirstMatch(task, cats, k + 1)

\* the outer loop forgetting the tasks no category takes
RECURSIVE categorize_tasks_drop_unmatched(_, _, _, _)
categorize_tasks_drop_unmatched(ts, cats, uncat, i) ==
    IF i > Len(ts) THEN [categories |-> cats, uncategorized |-> uncat]
    ELSE categorize_tasks_drop_unmatched(ts, AppendToFirstMatch(ts[i], cats, 1), uncat, i + 1)

\* the outer loop; the result is the pair (categories, uncategorized)
RECURSIVE categorize_tasks_by_business_value(_, _, _, _)
categorize_tasks_by_business_value(ts, cats, uncat, i) ==
    IF i > Len(ts) THEN [categories |-> cats, uncategorized |-> uncat]
    ELSE LET next == AppendToFirstMatch(ts[i], cats, 1)
             categorized == next # cats
         IN  categorize_tasks_by_business_value(ts, next,
                 IF categorized THEN uncat ELSE Append(uncat, ts[i]), i + 1)

\* sum(task['time'] for task in ts[i..] if task['time'] > 0)
RECURSIVE SumPositiveTime(_, _)
SumPositiveTime(ts, i) ==
    IF i > Len(ts) THEN Zero
    ELSE IF RLt(Zero, ts[i].time)
         THEN RAdd(ts[i].time, SumPositiveTime(ts, i + 1))
         ELSE SumPositiveTime(ts, i + 1)

\* calculate_business_metrics with the rate as a fraction of one
calculate_business_metrics_fraction(ts) ==
    LET total_completed == Cardinality({ i \in 1..Len(ts) : ts[i].commits # <<>> })
    IN  [ total_tasks |-> Len(ts),
          completed_tasks |-> total_completed,
          total_time |-> SumPositiveTime(ts, 1),
          high_priority_tasks |-> 0,
          completion_rate |-> IF ts # <<>> THEN Rat(total_completed, Len(ts)) ELSE Zero ]

calculate_business_metrics(ts) ==
    LET total_completed == Cardinality({ i \in 1..Len(ts) : ts[i].commits # <<>> })
        total_time == SumPositiveTime(ts, 1)
        high_priority == Cardinality({ i \in 1..Len(ts) :
                             Lower(ts[i].priority) \in { <<"h","i","g","h">>, <<"h","i","g","h","e","s","t">> } })
    IN  [ total_tasks |-> Len(ts),
          completed_tasks |-> total_completed,
          total_time |-> total_time,
          high_priority_tasks |-> high_priority,
          completion_rate |-> IF ts # <<>>
                              THEN RMul(Rat(total_completed, Len(ts)), Rat(100, 1))
                              ELSE Zero ]

\* time_str of format_task_header: which of its two branches is taken
format_task_header(task) ==
    IF RLt(Zero, task.time) THEN "hours" ELSE "no time estimated"

\* t.get('commits') or t.get('status', '').lower() in ['done', 'closed', 'resolved']
IsCompleted(task) ==
    \/ task.commits # <<>>
    \/ Lower(task.status) \in { <<"d","o","n","e">>, <<"c","l","o","s","e","d">>, <<"r","e","s","o","l","v","e","d">> }

\* sum(t['time'] for t in ts)
RECURSIVE SumTime(_)
SumTime(ts) == IF ts = <<>> THEN Zero ELSE RAdd(ts[1].time, SumTime(Tail(ts)))

\* avg_completion_time of analyze_velocity_insights, the divisor of the
\* sprint capacity (computed by the code for three completed tasks or more)
avg_completion_time(ts) ==
    LET completed_tasks == SelectSeq(ts, IsCompleted)
    IN  RDiv(SumTime(completed_tasks), Rat(Len(completed_tasks), 1))

\* no business analysis yet
NoMetrics ==
    [ total_tasks |-> 0, completed_tasks |-> 0, total_time |-> Zero,
      high_priority_tasks |-> 0, completion_rate |-> Zero ]

(***************************************************************************)
(* Narrative Generator.  A collaborator is absent (None at import time),   *)
(* replies with a text, or raises; a reply of OpenAI may also carry no     *)
(* content, and then .strip() raises inside the try.  The sentences of the *)
(* template are kept as records, their numbers unformatted.                *)
(***************************************************************************)
Whitespace == { " ", "\t" }

\* str.strip()
RECURSIVE LStrip(_)
LStrip(s) == IF s # <<>> /\ s[1] \in Whitespace THEN LStrip(Tail(s)) ELSE s

RECURSIVE RStrip(_)
RStrip(s) ==
    IF s # <<>> /\ s[Len(s)] \in Whitespace THEN RStrip(SubSeq(s, 1, Len(s) - 1)) ELSE s

Strip(s) == RStrip(LStrip(s))

Absent == [state |-> "absent", text |-> <<>>]
Replies(text) == [state |-> "replies", text |-> text]
Raises == [state |-> "raises", text |-> <<>>]
NoContent == [state |-> "no_content", text |-> <<>>]

GeminiOutcomes == { Absent, Replies(<<" ","B","u","s","i","n","e","s","s"," ","I","n","s","i","g","h","t","s",":"," ","s","t","e","a","d","y"," ","d","e","l","i","v","e","r","y","."," ">>), Raises }
OpenAIOutcomes == { Absent, Replies(<<"D","e","l","i","v","e","r","y"," ","i","s"," ","o","n"," ","t","r","a","c","k",".">>), Raises, NoContent }

AIClients == [ gemini_model : GeminiOutcomes, openai_client : OpenAIOutcomes ]

\* neither key is in the environment
NoAI == [ gemini_model |-> Absent, openai_client |-> Absent ]

feature_keywords == << <<"f","e","a","t","u","r","e">>, <<"a","d","d">>, <<"n","e","w">>, <<"i","m","p","l","e","m","e","n","t">>, <<"c","r","e","a","t","e">> >>
improvement_keywords == << <<"f","i","x">>, <<"i","m","p","r","o","v","e">>, <<"u","p","d","a","t","e">>, <<"e","n","h","a","n","c","e">>, <<"o","p","t","i","m","i","z","e">> >>
security_keywords == << <<"s","e","c","u","r","i","t","y">>, <<"a","u","t","h">>, <<"t","o","k","e","n">>, <<"v","a","l","i","d","a","t","i","o","n">>, <<"a","c","c","e","s","s">> >>

\* one sentence of the template: what it says, of how many tasks, of how many hours
SummaryPart(sentence, count, hours) ==
    [sentence |-> sentence, count |-> count, hours |-> hours]

\* the overview also prints total_time / 22 as the daily average
generate_enhanced_template_summary(ts, completed_tasks, total_time) ==
    IF completed_tasks = <<>>
    THEN << SummaryPart("No tasks completed during this period.", 0, Zero) >>
    ELSE LET is_feature(t) == AnyKeyword(feature_keywords, Lower(t.title))
             is_improvement(t) == ~is_feature(t)
                                  /\ AnyKeyword(improvement_keywords, Lower(t.title))
             is_security(t) == ~is_feature(t) /\ ~is_improvement(t)
                               /\ AnyKeyword(security_keywords, Lower(t.title))
             feature_work == SelectSeq(completed_tasks, is_feature)
             improvements == SelectSeq(completed_tasks, is_improvement)
             security_work == SelectSeq(completed_tasks, is_security)
             avg_task_time == RDiv(total_time, Rat(Len(completed_tasks), 1))
         IN  << SummaryPart("Delivered", Len(completed_tasks), total_time) >>
             \o (IF feature_work # <<>>
                 THEN << SummaryPart("New capabilities", Len(feature_work), SumTime(feature_work)) >>
                 ELSE <<>>)
             \o (IF improvements # <<>>
                 THEN << SummaryPart("Platform enhancement", Len(improvements), SumTime(improvements)) >>
                 ELSE <<>>)
             \o (IF security_work # <<>>
                 THEN << SummaryPart("Security advancement", Len(security_work), SumTime(security_work)) >>
                 ELSE <<>>)
             \o (IF Len(completed_tasks) >= 3
                 THEN IF RLt(Dec(8, 0), avg_task_time)
                      THEN << SummaryPart("Development pattern: Complex feature work", 0, avg_task_time) >>
                      ELSE IF RLt(avg_task_time, Dec(3, 0))
                      THEN << SummaryPart("Development pattern: Efficient task completion", 0, avg_task_time) >>
                      ELSE << SummaryPart("Development pattern: Balanced development approach", 0, avg_task_time) >>
                 ELSE <<>>)

\* what generate_summary returns: the text of a collaborator or the
\* sentences of the template, and the collaborators it called
Summary(source, text, parts, calls) ==
    [source |-> source, text |-> text, parts |-> parts, calls |-> calls]

\* generate_summary was not called
NoSummary == Summary("none", <<>>, <<>>, <<>>)

\* generate_summary asking OpenAI before Gemini
generate_summary_openai_first(ts, clients) ==
    LET completed_tasks == SelectSeq(ts, LAMBDA t : t.commits # <<>>)
        total_time == SumPositiveTime(ts, 1)
        gemini == clients.gemini_model
        openai == clients.openai_client
        openai_call == IF openai.state # "absent" THEN <<"openai">> ELSE <<>>
        gemini_call == IF gemini.state # "absent" THEN <<"gemini">> ELSE <<>>
    IN  IF openai.state = "replies"
        THEN Summary("openai", Strip(openai.text), <<>>, openai_call)
        ELSE IF gemini.state = "replies"
        THEN Summary("gemini", Strip(gemini.text), <<>>, openai_call \o gemini_call)
        ELSE Summary("template", <<>>,
                     generate_enhanced_template_summary(ts, completed_tasks, total_time),
                     openai_call \o gemini_call)

generate_summary(ts, clients) ==
    LET completed_tasks == SelectSeq(ts, LAMBDA t : t.commits # <<>>)
        total_time == SumPositiveTime(ts, 1)
        gemini == clients.gemini_model
        openai == clients.openai_client
        gemini_call == IF gemini.state # "absent" THEN <<"gemini">> ELSE <<>>
        openai_call == IF openai.state # "absent" THEN <<"openai">> ELSE <<>>
    IN  IF gemini.state = "replies"
        THEN Summary("gemini", Strip(gemini.text), <<>>, gemini_call)
        ELSE IF openai.state = "replies"
        THEN Summary("openai", Strip(openai.text), <<>>, gemini_call \o openai_call)
        ELSE Summary("template", <<>>,
                     generate_enhanced_template_summary(ts, completed_tasks, total_time),
                     gemini_call \o openai_call)

\* analyze_time_source testing the estimate before the logged time
analyze_time_source_estimate_first(ts) ==
    LET estimated(t) == RLt(Zero, t.jira_time_estimate)
        logged(t) == ~estimated(t)
                     /\ (RLt(Zero, t.jira_time_spent) \/ RLt(Zero, t.jira_aggregate_time))
    IN  [ jira_logged |-> Len(SelectSeq(ts, logged)),
          jira_estimated |-> Len(SelectSeq(ts, estimated)),
          git_estimated |-> Len(SelectSeq(ts, LAMBDA t : ~logged(t) /\ ~estimated(t))),
          total |-> Len(ts) ]

analyze_time_source(ts) ==
    LET logged(t) == RLt(Zero, t.jira_time_spent) \/ RLt(Zero, t.jira_aggregate_time)
        estimated(t) == ~logged(t) /\ RLt(Zero, t.jira_time_estimate)
    IN  [ jira_logged |-> Len(SelectSeq(ts, logged)),
          jira_estimated |-> Len(SelectSeq(ts, estimated)),
          git_estimated |-> Len(SelectSeq(ts, LAMBDA t : ~logged(t) /\ ~estimated(t))),
          total |-> Len(ts) ]

NoTimeSources ==
    [ jira_logged |-> 0, jira_estimated |-> 0, git_estimated |-> 0, total |-> -1 ]

(***************************************************************************)
(* Business-value sentences of the impact analysis.                        *)
(***************************************************************************)
\* str.split()
RECURSIVE SplitWords(_, _, _)
SplitWords(s, i, word) ==
    LET found == IF word = <<>> THEN <<>> ELSE <<word>>
    IN  IF i > Len(s) THEN found
        ELSE IF s[i] \in Whitespace THEN found \o SplitWords(s, i + 1, <<>>)
        ELSE SplitWords(s, i + 1, Append(word, s[i]))

Split(s) == SplitWords(s, 1, <<>>)

\* ' '.join(words)
RECURSIVE Join(_)
Join(words) ==
    IF words = <<>> THEN <<>>
    ELSE IF Len(words) = 1 THEN words[1]
    ELSE words[1] \o <<" ">> \o Join(Tail(words))

\* s.replace(old, "")
RECURSIVE Remove(_, _)
Remove(s, old) ==
    IF Len(s) < Len(old) THEN s
    ELSE IF SubSeq(s, 1, Len(old)) = old THEN Remove(SubSeq(s, Len(old) + 1, Len(s)), old)
    ELSE <<s[1]>> \o Remove(Tail(s), old)

action_words ==
    { <<"a","d","d">>, <<"c","r","e","a","t","e">>, <<"i","m","p","l","e","m","e","n","t">>, <<"b","u","i","l","d">>, <<"d","e","v","e","l","o","p">>, <<"f","i","x">>, <<"u","p","d","a","t","e">>,
      <<"i","m","p","r","o","v","e">>, <<"e","n","h","a","n","c","e">>, <<"o","p","t","i","m","i","z","e">> }

\* title_words[i+1:i+4] joined, for the word at position i (from 1)
ObjectAfter(title_words, i) ==
    Join(SubSeq(title_words, i + 1, IF i + 3 < Len(title_words) THEN i + 3 ELSE Len(title_words)))

extract_action_and_objects(title_lower) ==
    LET title_words == Split(title_lower)
        candidates == [i \in 1..Len(title_words) |->
                          [ kept |-> /\ title_words[i] \in action_words
                                     /\ i < Len(title_words)
                                     /\ Len(ObjectAfter(title_words, i)) > 3,
                            phrase |-> title_words[i] \o <<" ">> \o ObjectAfter(title_words, i) ]]
        kept == SelectSeq(candidates, LAMBDA c : c.kept)
    IN  [k \in 1..Len(kept) |-> kept[k].phrase]

\* one branch of a category handler: the terms looked for in the title and
\* in the action phrases, the context when no phrase has one, and the
\* sentence around the context
ValueRule(terms, default, prefix, suffix) ==
    [terms |-> terms, default |-> default, prefix |-> prefix, suffix |-> suffix]

get_revenue_sales_value ==
    << ValueRule(<< <<"d","i","s","c","o","u","n","t">>, <<"c","o","u","p","o","n">>, <<"p","r","o","m","o">> >>,
                 <<"p","r","o","m","o","t","i","o","n","a","l"," ","s","y","s","t","e","m">>,
                 <<"E","n","h","a","n","c","e","d"," ","p","r","o","m","o","t","i","o","n","a","l"," ","c","a","p","a","b","i","l","i","t","i","e","s"," ","t","h","r","o","u","g","h"," ">>,
                 <<","," ","d","r","i","v","i","n","g"," ","s","a","l","e","s"," ","c","o","n","v","e","r","s","i","o","n"," ","a","n","d"," ","c","u","s","t","o","m","e","r"," ","a","c","q","u","i","s","i","t","i","o","n">>),
       ValueRule(<< <<"c","a","r","t">> >>,
                 <<"s","h","o","p","p","i","n","g"," ","c","a","r","t"," ","f","u","n","c","t","i","o","n","a","l","i","t","y">>,
                 <<"I","m","p","r","o","v","e","d"," ","s","h","o","p","p","i","n","g"," ","e","x","p","e","r","i","e","n","c","e"," ","v","i","a"," ">>,
                 <<","," ","r","e","d","u","c","i","n","g"," ","c","a","r","t"," ","a","b","a","n","d","o","n","m","e","n","t"," ","a","n","d"," ","i","n","c","r","e","a","s","i","n","g"," ","c","o","m","p","l","e","t","i","o","n"," ","r","a","t","e","s">>),
       ValueRule(<< <<"p","a","y","m","e","n","t">>, <<"b","i","l","l","i","n","g">>, <<"c","h","e","c","k","o","u","t">> >>,
                 <<"p","a","y","m","e","n","t"," ","p","r","o","c","e","s","s","i","n","g">>,
                 <<"S","t","r","e","a","m","l","i","n","e","d"," ">>,
                 <<" ","f","o","r"," ","b","e","t","t","e","r"," ","u","s","e","r"," ","e","x","p","e","r","i","e","n","c","e"," ","a","n","d"," ","i","n","c","r","e","a","s","e","d"," ","t","r","a","n","s","a","c","t","i","o","n"," ","s","u","c","c","e","s","s"," ","r","a","t","e","s">>) >>

get_user_experience_value ==
    << ValueRule(<< <<"l","o","g","i","n">>, <<"a","u","t","h">>, <<"s","e","s","s","i","o","n">> >>,
                 <<"a","u","t","h","e","n","t","i","c","a","t","i","o","n"," ","s","y","s","t","e","m">>,
                 <<"E","n","h","a","n","c","e","d"," ","u","s","e","r"," ","a","c","c","e","s","s"," ","t","h","r","o","u","g","h"," ">>,
                 <<","," ","i","m","p","r","o","v","i","n","g"," ","s","e","c","u","r","i","t","y"," ","a","n","d"," ","u","s","e","r"," ","e","x","p","e","r","i","e","n","c","e">>),
       ValueRule(<< <<"u","i">>, <<"i","n","t","e","r","f","a","c","e">>, <<"d","e","s","i","g","n">>, <<"t","h","e","m","e">> >>,
                 <<"u","s","e","r"," ","i","n","t","e","r","f","a","c","e">>,
                 <<"I","m","p","r","o","v","e","d"," ">>,
                 <<" ","f","o","r"," ","b","e","t","t","e","r"," ","u","s","e","r"," ","e","n","g","a","g","e","m","e","n","t"," ","a","n","d"," ","p","l","a","t","f","o","r","m"," ","u","s","a","b","i","l","i","t","y">>),
       ValueRule(<< <<"t","e","m","p","l","a","t","e">>, <<"l","a","y","o","u","t">> >>,
                 <<"t","e","m","p","l","a","t","e"," ","s","y","s","t","e","m">>,
                 <<"E","x","p","a","n","d","e","d"," ","d","e","s","i","g","n"," ","c","a","p","a","b","i","l","i","t","i","e","s"," ","t","h","r","o","u","g","h"," ">>,
                 <<","," ","p","r","o","v","i","d","i","n","g"," ","m","o","r","e"," ","u","s","e","r"," ","c","u","s","t","o","m","i","z","a","t","i","o","n"," ","o","p","t","i","o","n","s">>) >>

get_security_compliance_value ==
    << ValueRule(<< <<"t","o","k","e","n">>, <<"j","w","t">>, <<"a","u","t","h">> >>,
                 <<"a","u","t","h","e","n","t","i","c","a","t","i","o","n"," ","s","e","c","u","r","i","t","y">>,
                 <<"S","t","r","e","n","g","t","h","e","n","e","d"," ">>,
                 <<" ","i","n","f","r","a","s","t","r","u","c","t","u","r","e",","," ","i","m","p","r","o","v","i","n","g"," ","a","c","c","e","s","s"," ","c","o","n","t","r","o","l","s"," ","a","n","d"," ","d","a","t","a"," ","p","r","o","t","e","c","t","i","o","n">>),
       ValueRule(<< <<"v","a","l","i","d","a","t","i","o","n">>, <<"v","e","r","i","f","y">> >>,
                 <<"v","a","l","i","d","a","t","i","o","n"," ","s","y","s","t","e","m">>,
                 <<"E","n","h","a","n","c","e","d"," ">>,
                 <<" ","f","o","r"," ","i","m","p","r","o","v","e","d"," ","d","a","t","a"," ","i","n","t","e","g","r","i","t","y"," ","a","n","d"," ","s","e","c","u","r","i","t","y"," ","c","o","m","p","l","i","a","n","c","e">>),
       ValueRule(<< <<"c","o","o","k","i","e">>, <<"s","e","s","s","i","o","n">>, <<"p","r","i","v","a","c","y">> >>,
                 <<"p","r","i","v","a","c","y"," ","c","o","n","t","r","o","l","s">>,
                 <<"I","m","p","r","o","v","e","d"," ">>,
                 <<" ","f","o","r"," ","b","e","t","t","e","r"," ","d","a","t","a"," ","h","a","n","d","l","i","n","g"," ","a","n","d"," ","r","e","g","u","l","a","t","o","r","y"," ","c","o","m","p","l","i","a","n","c","e">>) >>

get_operational_efficiency_value ==
    << ValueRule(<< <<"a","d","m","i","n">> >>,
                 <<"a","d","m","i","n","i","s","t","r","a","t","i","v","e"," ","f","u","n","c","t","i","o","n","a","l","i","t","y">>,
                 <<"E","n","h","a","n","c","e","d"," ">>,
                 <<" ","f","o","r"," ","i","m","p","r","o","v","e","d"," ","w","o","r","k","f","l","o","w"," ","e","f","f","i","c","i","e","n","c","y"," ","a","n","d"," ","s","y","s","t","e","m"," ","m","a","n","a","g","e","m","e","n","t">>),
       ValueRule(<< <<"f","i","l","t","e","r">>, <<"s","e","a","r","c","h">>, <<"c","r","u","d">> >>,
                 <<"d","a","t","a"," ","m","a","n","a","g","e","m","e","n","t"," ","t","o","o","l","s">>,
                 <<"I","m","p","r","o","v","e","d"," ">>,
                 <<" ","f","o","r"," ","e","n","h","a","n","c","e","d"," ","o","p","e","r","a","t","i","o","n","a","l"," ","p","r","o","d","u","c","t","i","v","i","t","y"," ","a","n","d"," ","d","a","t","a"," ","a","c","c","e","s","s">>),
       ValueRule(<< <<"a","u","t","o","m","a","t","i","o","n">>, <<"c","r","o","n">>, <<"b","a","t","c","h">> >>,
                 <<"a","u","t","o","m","a","t","e","d"," ","p","r","o","c","e","s","s","e","s">>,
                 <<"I","m","p","l","e","m","e","n","t","e","d"," ">>,
                 <<" ","t","o"," ","r","e","d","u","c","e"," ","m","a","n","u","a","l"," ","o","v","e","r","h","e","a","d"," ","a","n","d"," ","i","n","c","r","e","a","s","e"," ","o","p","e","r","a","t","i","o","n","a","l"," ","e","f","f","i","c","i","e","n","c","y">>) >>

get_platform_stability_value ==
    << ValueRule(<< <<"b","u","g">>, <<"f","i","x">>, <<"e","r","r","o","r">> >>,
                 <<"s","y","s","t","e","m"," ","i","s","s","u","e","s">>,
                 <<"R","e","s","o","l","v","e","d"," ">>,
                 <<" ","t","o"," ","i","m","p","r","o","v","e"," ","p","l","a","t","f","o","r","m"," ","r","e","l","i","a","b","i","l","i","t","y"," ","a","n","d"," ","u","s","e","r"," ","e","x","p","e","r","i","e","n","c","e">>),
       ValueRule(<< <<"p","e","r","f","o","r","m","a","n","c","e">>, <<"o","p","t","i","m","i","z","e">>, <<"s","p","e","e","d">> >>,
                 <<"s","y","s","t","e","m"," ","p","e","r","f","o","r","m","a","n","c","e">>,
                 <<"O","p","t","i","m","i","z","e","d"," ">>,
                 <<" ","f","o","r"," ","i","m","p","r","o","v","e","d"," ","r","e","s","p","o","n","s","i","v","e","n","e","s","s"," ","a","n","d"," ","u","s","e","r"," ","s","a","t","i","s","f","a","c","t","i","o","n">>),
       ValueRule(<< <<"s","t","o","r","a","g","e">>, <<"d","a","t","a","b","a","s","e">>, <<"c","a","c","h","e">> >>,
                 <<"d","a","t","a"," ","i","n","f","r","a","s","t","r","u","c","t","u","r","e">>,
                 <<"E","n","h","a","n","c","e","d"," ">>,
                 <<" ","f","o","r"," ","b","e","t","t","e","r"," ","s","y","s","t","e","m"," ","s","t","a","b","i","l","i","t","y"," ","a","n","d"," ","d","a","t","a"," ","m","a","n","a","g","e","m","e","n","t">>) >>

get_feature_expansion_value ==
    << ValueRule(<< <<"n","e","w">>, <<"a","d","d">>, <<"c","r","e","a","t","e">> >>,
                 <<"p","l","a","t","f","o","r","m"," ","c","a","p","a","b","i","l","i","t","i","e","s">>,
                 <<"E","x","p","a","n","d","e","d"," ">>,
                 <<" ","t","o"," ","p","r","o","v","i","d","e"," ","a","d","d","i","t","i","o","n","a","l"," ","u","s","e","r"," ","v","a","l","u","e"," ","a","n","d"," ","f","u","n","c","t","i","o","n","a","l","i","t","y">>),
       ValueRule(<< <<"i","m","p","l","e","m","e","n","t">>, <<"d","e","v","e","l","o","p">>, <<"b","u","i","l","d">> >>,
                 <<"n","e","w"," ","f","u","n","c","t","i","o","n","a","l","i","t","y">>,
                 <<"D","e","l","i","v","e","r","e","d"," ">>,
                 <<" ","t","o"," ","e","n","h","a","n","c","e"," ","p","l","a","t","f","o","r","m"," ","o","f","f","e","r","i","n","g","s"," ","a","n","d"," ","u","s","e","r"," ","e","x","p","e","r","i","e","n","c","e">>) >>

\* category_handlers.get(category)
category_handlers(category) ==
    CASE category = "Revenue & Sales" -> get_revenue_sales_value
      [] category = "User Experience" -> get_user_experience_value
      [] category = "Security & Compliance" -> get_security_compliance_value
      [] category = "Operational Efficiency" -> get_operational_efficiency_value
      [] category = "Platform Stability" -> get_platform_stability_value
      [] category = "Feature Expansion" -> get_feature_expansion_value
      [] OTHER -> <<>>

\* handler(title_lower, object_words): the sentence of the first branch
\* whose terms the title holds, None (the empty text) without one
apply_handler(handler, title_lower, object_words) ==
    LET matching == { k \in 1..Len(handler) : AnyKeyword(handler[k].terms, title_lower) }
    IN  IF matching = {} THEN <<>>
        ELSE LET rule == handler[CHOOSE k \in matching : \A j \in matching : k <= j]
                 with_term == SelectSeq(object_words, LAMBDA obj : AnyKeyword(rule.terms, obj))
                 context == IF with_term # <<>> THEN with_term[1] ELSE rule.default
             IN  rule.prefix \o context \o rule.suffix

extract_specific_business_value(task_title, category) ==
    LET title_lower == Lower(task_title)
        object_words == extract_action_and_objects(title_lower)
        result == apply_handler(category_handlers(category), title_lower, object_words)
        cleaned_title == Remove(Remove(Remove(task_title, <<"T","D","-">>), <<"S","S","W","-">>), <<"P","R","O","J","-">>)
    IN  IF result # <<>> THEN result
        ELSE IF object_words # <<>>
        THEN <<"C","o","m","p","l","e","t","e","d"," ">> \o object_words[1]
             \o <<" ","t","o"," ","e","n","h","a","n","c","e"," ","p","l","a","t","f","o","r","m"," ","c","a","p","a","b","i","l","i","t","i","e","s"," ","a","n","d"," ","b","u","s","i","n","e","s","s"," ","v","a","l","u","e">>
        ELSE <<"D","e","l","i","v","e","r","e","d"," ">> \o Lower(cleaned_title)
             \o <<" ","t","o"," ","i","m","p","r","o","v","e"," ","p","l","a","t","f","o","r","m"," ","f","u","n","c","t","i","o","n","a","l","i","t","y"," ","a","n","d"," ","u","s","e","r"," ","e","x","p","e","r","i","e","n","c","e">>

\* the enhanced value is never empty, so the older transformations behind
\* it are never consulted
transform_to_business_value(technical_title, category) ==
    extract_specific_business_value(technical_title, category)

\* one section of the detailed impact analysis: the figures of the status
\* line, the sentences of the key achievements, the number of further
\* achievements and of pending items; completed_tasks and pending_tasks are
\* the two lists the code builds for them
ImpactSection(category) ==
    LET completed_tasks == SelectSeq(category.tasks, IsCompleted)
        pending_tasks == SelectSeq(category.tasks, LAMBDA t : t.commits = <<>>)
        shown == IF Len(completed_tasks) > 3 THEN 3 ELSE Len(completed_tasks)
    IN  [ impact |-> category.impact,
          completed |-> Len(SelectSeq(category.tasks, LAMBDA t : t.commits # <<>>)),
          total |-> Len(category.tasks),
          time_invested |-> SumPositiveTime(category.tasks, 1),
          completed_tasks |-> completed_tasks,
          key_achievements |->
              [k \in 1..shown |->
                  transform_to_business_value(completed_tasks[k].title, category.impact)],
          additional |-> Len(completed_tasks) - shown,
          pending_tasks |-> pending_tasks ]

generate_detailed_impact_analysis(business_categories) ==
    LET filled == SelectSeq(business_categories, LAMBDA c : c.tasks # <<>>)
    IN  [k \in 1..Len(filled) |-> ImpactSection(filled[k])]

\* the inputs of extract_specific_business_value in SpecValue
ValueTitles ==
    { <<"F","i","x"," ","b","u","g">>, <<"U","p","d","a","t","e"," ","a","p","i">>, <<"U","p","d","a","t","e"," ","a","p","i","s">>, <<"F","i","x"," ","l","o","g","i","n"," ","r","e","d","i","r","e","c","t"," ","i","s","s","u","e"," ","n","o","w">>,
      <<"P","R","O","J","-","1","2"," ","W","r","i","t","e"," ","d","o","c","s">>, <<"T","D","-","7"," ","a","d","m","i","n"," ","F","i","x">>, <<"A","d","d"," ","c","a","r","t"," ","a","n","d"," ","f","i","x"," "," ","c","h","e","c","k","o","u","t">>,
      <<"C","r","e","a","t","e"," ","N","e","w"," ","F","e","a","t","u","r","e">>, <<"D","e","s","i","g","n"," ","a","u","t","h"," ","t","o","k","e","n">>, <<"S","S","W","-","3"," ","I","m","p","r","o","v","e"," ","i","t">>,
      <<"B","u","i","l","d"," ","a"," ","b">>, <<"N","o","t","e","s"," ","o","n"," ","s","e","s","s","i","o","n"," ","C","o","o","k","i","e">> }

ValueCategories == { get_business_categories[k].impact : k \in 1..Len(get_business_categories) }
                   \cup { "Other" }

NoValue == [ object_words |-> <<>>, value |-> <<>> ]

ValueIdle ==
    /\ value_title = <<>>
    /\ value_category = "none"
    /\ value_result = NoValue

\* the sections of the stakeholder report the model follows: the AI
\* narrative (asked for when a task is completed, printed when it speaks
\* of Business Insights, which no sentence of the template does) and the
\* impact analysis and the time sources of the success metrics
NoStakeholderReport ==
    [ present |-> FALSE, ai_summary |-> NoSummary, strategic_analysis |-> <<>>,
      impact_analysis |-> <<>>, time_sources |-> NoTimeSources ]

generate_stakeholder_report(ts, business_analysis, clients) ==
    LET completed_tasks == SelectSeq(ts, IsCompleted)
        ai_summary == IF Len(completed_tasks) > 0 THEN generate_summary(ts, clients)
                      ELSE NoSummary
    IN  [ present |-> TRUE,
          ai_summary |-> ai_summary,
          strategic_analysis |->
              IF Contains(<<"B","u","s","i","n","e","s","s"," ","I","n","s","i","g","h","t","s">>, ai_summary.text) THEN ai_summary.text
              ELSE <<>>,
          impact_analysis |-> generate_detailed_impact_analysis(business_analysis),
          time_sources |-> analyze_time_source(ts) ]

ReportTypes == { "stakeholder", "technical", "both" }

\* nothing reported yet
NoReport ==
    [ report_type |-> "none", stakeholder |-> NoStakeholderReport, summary |-> NoSummary ]

ReportIdle ==
    /\ ai = NoAI
    /\ report = NoReport

(***************************************************************************)
(* The pipeline of main().  log holds the warnings and errors printed.     *)
(***************************************************************************)
LogEntry(event, path) == [event |-> event, path |-> path]

\* git.Repo(repo_path) succeeds
IsValidRepo(path) == repos[path].state # "invalid"

\* validate_repositories giving up as soon as one path is invalid
validate_repositories_all_or_nothing ==
    /\ pc = "start"
    /\ IF \E k \in 1..Len(repo_paths) : ~IsValidRepo(repo_paths[k])
       THEN /\ log' = Append(log, LogEntry("no_valid_repositories", <<>>))
            /\ repo_paths' = <<>>
            /\ pc' = "aborted"
       ELSE /\ pc' = "validated"
            /\ UNCHANGED <<repo_paths, log>>
    /\ UNCHANGED <<tasks, analysis_vars, repos, issues, tracker, git_vars, sprint_vars, corr_vars, report_vars, value_vars>>

validate_repositories ==
    /\ pc = "start"
    /\ LET valid_repos == SelectSeq(repo_paths, IsValidRepo)
           warnings == [k \in 1..Len(SelectSeq(repo_paths, LAMBDA p : ~IsValidRepo(p))) |->
                           LogEntry("invalid_repository",
                                    SelectSeq(repo_paths, LAMBDA p : ~IsValidRepo(p))[k])]
       IN  IF valid_repos = <<>>
           THEN /\ log' = log \o warnings \o <<LogEntry("no_valid_repositories", <<>>)>>
                /\ repo_paths' = <<>>
                /\ pc' = "aborted"
           ELSE /\ log' = log \o warnings
                /\ repo_paths' = valid_repos
                /\ pc' = "validated"
    /\ UNCHANGED <<tasks, analysis_vars, repos, issues, tracker, git_vars, sprint_vars, corr_vars, report_vars, value_vars>>

\* tasks = fetch_tasks(jira, ...) on the tracker's answer
query_tracker ==
    /\ pc = "validated"
    /\ LET r == fetch_tasks(tracker, issues)
       IN  /\ tasks' = r.tasks
           /\ pc' = IF r.raised THEN "fetch_raised" ELSE "fetched"
    /\ log' = IF tracker = "ok" THEN log ELSE Append(log, LogEntry("query_failed", <<>>))
    /\ UNCHANGED <<analysis_vars, repo_paths, repos, issues, tracker, git_vars, sprint_vars,
                   corr_vars, report_vars, value_vars>>

\* the task after one turn of the loop of process_task_commits
ProcessedTask(task, fetched) ==
    LET t == [task EXCEPT !.commits = fetched.commits,
                          !.repo_sources = fetched.repo_sources]
    IN  [t EXCEPT !.time = get_final_time_estimate(t, t.commits)]

\* the warnings printed for the tasks 1..n
RECURSIVE SkipWarnings(_, _)
SkipWarnings(fetched, n) ==
    IF n = 0 THEN <<>>
    ELSE SkipWarnings(fetched, n - 1)
         \o [k \in 1..Len(fetched[n].skipped) |->
                LogEntry("error_accessing_repo", fetched[n].skipped[k])]

\* for task in tasks: task['commits'] = ...; task['time'] = get_final_time_estimate(...);
\* an exception of the single-repository branch ends the loop and the run
process_task_commits ==
    /\ pc = "fetched"
    /\ LET fetched == [i \in 1..Len(tasks) |->
                          fetch_task_commits(repo_paths, tasks[i].id, repos)]
           raising == { i \in 1..Len(tasks) : fetched[i].raised }
           done == IF raising = {} THEN Len(tasks)
                   ELSE (CHOOSE i \in raising : \A j \in raising : i <= j) - 1
       IN  /\ tasks' = [i \in 1..Len(tasks) |->
                           IF i <= done THEN ProcessedTask(tasks[i], fetched[i])
                           ELSE tasks[i]]
           /\ log' = log \o SkipWarnings(fetched, done)
           /\ pc' = IF raising = {} THEN "processed" ELSE "raised"
    /\ UNCHANGED <<analysis_vars, repo_paths, repos, issues, tracker, git_vars, sprint_vars, corr_vars, report_vars, value_vars>>

analyze_business_impact ==
    /\ pc = "processed"
    /\ LET r == categorize_tasks_by_business_value(tasks, get_business_categories, <<>>, 1)
       IN  /\ categories' = r.categories
           /\ uncategorized' = r.uncategorized
    /\ metrics' = calculate_business_metrics(tasks)
    /\ pc' = "analyzed"
    /\ UNCHANGED <<tasks, world_vars, git_vars, sprint_vars, corr_vars, report_vars, value_vars>>

\* report = generate_report_content(args, tasks, business_analysis, ...):
\* args.report_type is stakeholder, technical or both
generate_report_content ==
    /\ pc = "analyzed"
    /\ \E report_type \in ReportTypes :
           report' =
               [ report_type |-> report_type,
                 stakeholder |->
                     IF report_type \in { "stakeholder", "both" }
                     THEN generate_stakeholder_report(tasks, categories, ai)
                     ELSE NoStakeholderReport,
                 summary |->
                     IF report_type \in { "technical", "both" }
                     THEN generate_summary(tasks, ai)
                     ELSE NoSummary ]
    /\ pc' = "reported"
    /\ UNCHANGED <<tasks, analysis_vars, world_vars, git_vars, sprint_vars, corr_vars, ai, value_vars>>

\* one issue of the assignee and one valid repository holding the commits
\* that mention it: the state after fetch_tasks
Init ==
    /\ issues \in { <<i>> : i \in AssignedIssues }
    /\ tracker = "ok"
    /\ tasks = fetch_tasks(tracker, issues).tasks
    /\ repo_paths = <<PathApi>>
    /\ \E commits \in TaskCommitLists :
           repos = [p \in RepoPaths |->
                       Repository("ok", {}, IF p = PathApi THEN commits ELSE <<>>)]
    /\ log = <<>>
    /\ categories = <<>>
    /\ uncategorized = <<>>
    /\ metrics = NoMetrics
    /\ pc = "fetched"
    /\ git_commits = <<>>
    /\ git_time = NoTime
    /\ SprintIdle
    /\ CorrIdle
    /\ ReportIdle
    /\ ValueIdle

Next == process_task_commits \/ analyze_business_impact

Spec == Init /\ [][Next]_vars

(***************************************************************************)
(* main() from the parsed command line on: some repositories are invalid,  *)
(* access to one fails while PROJ-5 is processed.                          *)
(***************************************************************************)
MainWorlds ==
    { [p \in RepoPaths |->
          Repository(IF p \in invalid THEN "invalid" ELSE "ok",
                     IF p = PathApi THEN fails_for ELSE {},
                     RepoContent(p))] :
        invalid \in SUBSET { PathApi, PathWeb }, fails_for \in { {}, { <<"P","R","O","J","-","5">> } } }

MainInit ==
    /\ repo_paths \in SeqsUpTo(RepoPaths, MaxRepos) \ { <<>> }
    /\ repos \in MainWorlds
    /\ issues \in SeqsUpTo(TrackerIssues, MaxIssues)
    /\ tracker \in { "ok", "primary_fails", "both_fail" }
    /\ log = <<>>
    /\ tasks = <<>>
    /\ categories = <<>>
    /\ uncategorized = <<>>
    /\ metrics = NoMetrics
    /\ pc = "start"
    /\ git_commits = <<>>
    /\ git_time = NoTime
    /\ SprintIdle
    /\ CorrIdle
    /\ ReportIdle
    /\ ValueIdle

MainNext ==
    \/ validate_repositories
    \/ query_tracker
    \/ process_task_commits
    \/ analyze_business_impact
    \/ generate_report_content

SpecMain == MainInit /\ [][MainNext]_vars

(***************************************************************************)
(* The run from the fetched tasks to the report, over every state of the   *)
(* two AI collaborators: tasks with and without commits, of every time     *)
(* source, completed or not.                                               *)
(***************************************************************************)
ReportIssues ==
    { Issue(<<"P","R","O","J","-","5">>, <<"F","i","x"," ","l","o","g","i","n"," ","r","e","d","i","r","e","c","t"," ","i","s","s","u","e">>, <<"B","u","g">>, PyStr(<<"H","i","g","h">>), PyStr(<<"D","o","n","e">>), Dev,
            <<0, 0, 0>>, <<DateOn(StartDay + 1), DateNone, DateNone>>, NoSprintFields),
      Issue(<<"P","R","O","J","-","6","1">>, <<"C","r","e","a","t","e"," ","n","e","w"," ","f","e","a","t","u","r","e">>, <<"S","t","o","r","y">>, PyStr(<<"H","i","g","h">>), PyStr(<<"I","n"," ","P","r","o","g","r","e","s","s">>), Dev,
            <<10800, 36000, 0>>, <<DateOn(StartDay + 1), DateNone, DateNone>>, NoSprintFields),
      Issue(<<"P","R","O","J","-","6","2">>, <<"C","h","e","c","k","o","u","t"," ","a","p","i"," ","u","p","d","a","t","e">>, <<"S","t","o","r","y">>, PyStr(<<"M","e","d","i","u","m">>), PyStr(<<"D","o","n","e">>), Dev,
            <<0, 36000, 0>>, <<DateOn(StartDay + 1), DateNone, DateNone>>, NoSprintFields),
      Issue(<<"P","R","O","J","-","6","3">>, <<"W","r","i","t","e"," ","d","o","c","s">>, <<"T","a","s","k">>, PyStr(<<"M","e","d","i","u","m">>), PyStr(<<"T","o"," ","D","o">>), Dev,
            <<0, 36000, 18000>>, <<DateOn(StartDay + 1), DateNone, DateNone>>, NoSprintFields),
      Issue(<<"P","R","O","J","-","6","4">>, <<"D","e","s","i","g","n"," ","a","u","t","h"," ","t","o","k","e","n">>, <<"E","p","i","c">>, PyStr(<<"H","i","g","h","e","s","t">>), PyStr(<<"R","e","s","o","l","v","e","d">>), Dev,
            <<0, 36000, 0>>, <<DateOn(StartDay + 1), DateNone, DateNone>>, NoSprintFields),
      Issue(<<"P","R","O","J","-","6","5">>, <<"A","d","m","i","n"," ","c","r","u","d">>, <<"T","a","s","k">>, PyStr(<<"M","e","d","i","u","m">>), PyStr(<<"T","o"," ","D","o">>), Dev,
            <<0, 0, 0>>, <<DateOn(StartDay + 1), DateNone, DateNone>>, NoSprintFields) }

\* the commits of the one repository of SpecReport
ReportRepoContent ==
    << RepoCommit("a1a1a1", <<"P","R","O","J","-","5"," ","f","i","x"," ","b","u","g">>, 0, TRUE),
       RepoCommit("a2a2a2", <<"P","R","O","J","-","6","1"," ","a","d","d">>, 60, TRUE),
       RepoCommit("a3a3a3", <<"P","R","O","J","-","6","4"," ","d","e","s","i","g","n">>, 0, TRUE),
       RepoCommit("a4a4a4", <<"P","R","O","J","-","6","4"," ","t","o","k","e","n","s">>, 30, TRUE),
       RepoCommit("a5a5a5", <<"u","n","r","e","l","a","t","e","d">>, 90, TRUE) >>

ReportInit ==
    /\ issues \in SeqsUpTo(ReportIssues, MaxReportIssues)
    /\ tracker = "ok"
    /\ tasks = fetch_tasks(tracker, issues).tasks
    /\ repo_paths = <<PathApi>>
    /\ repos = [p \in RepoPaths |->
                   Repository("ok", {}, IF p = PathApi THEN ReportRepoContent ELSE <<>>)]
    /\ log = <<>>
    /\ categories = <<>>
    /\ uncategorized = <<>>
    /\ metrics = NoMetrics
    /\ pc = "fetched"
    /\ git_commits = <<>>
    /\ git_time = NoTime
    /\ SprintIdle
    /\ CorrIdle
    /\ ai \in AIClients
    /\ report = NoReport
    /\ ValueIdle

ReportNext ==
    \/ process_task_commits
    \/ analyze_business_impact
    \/ generate_report_content

SpecReport == ReportInit /\ [][ReportNext]_vars

(***************************************************************************)
(* extract_specific_business_value on its own, over titles and categories. *)
(***************************************************************************)
ValueInit ==
    /\ tasks = <<>>
    /\ categories = <<>>
    /\ uncategorized = <<>>
    /\ metrics = NoMetrics
    /\ pc = "value_input"
    /\ git_commits = <<>>
    /\ git_time = NoTime
    /\ SprintIdle
    /\ CorrIdle
    /\ WorldIdle
    /\ ai = NoAI
    /\ report = NoReport
    /\ value_title \in ValueTitles
    /\ value_category \in ValueCategories
    /\ value_result = NoValue

ExtractValue ==
    /\ pc = "value_input"
    /\ value_result' =
           [ object_words |-> extract_action_and_objects(Lower(value_title)),
             value |-> extract_specific_business_value(value_title, value_category) ]
    /\ pc' = "value_done"
    /\ UNCHANGED <<tasks, analysis_vars, world_vars, git_vars, sprint_vars, corr_vars,
                   report_vars, value_title, value_category>>

ValueNext == ExtractValue

SpecValue == ValueInit /\ [][ValueNext]_vars

(***************************************************************************)
(* estimate_git_commit_time on its own, over every commit list.            *)
(***************************************************************************)
GitInit ==
    /\ tasks = <<>>
    /\ categories = <<>>
    /\ uncategorized = <<>>
    /\ metrics = NoMetrics
    /\ pc = "git_input"
    /\ git_commits \in GitCommitLists
    /\ git_time = NoTime
    /\ SprintIdle
    /\ CorrIdle
    /\ ReportIdle
    /\ ValueIdle
    /\ WorldIdle

GitEstimate ==
    /\ pc = "git_input"
    /\ git_time' = estimate_git_commit_time(git_commits)
    /\ pc' = "git_done"
    /\ UNCHANGED <<tasks, analysis_vars, world_vars, git_commits, sprint_vars, corr_vars, report_vars, value_vars>>

GitNext == GitEstimate

SpecGit == GitInit /\ [][GitNext]_vars

(***************************************************************************)
(* detect_sprint_info on its own, over every shape of the four fields.     *)
(***************************************************************************)
SprintInit ==
    /\ tasks = <<>>
    /\ categories = <<>>
    /\ uncategorized = <<>>
    /\ metrics = NoMetrics
    /\ pc = "sprint_input"
    /\ git_commits = <<>>
    /\ git_time = NoTime
    /\ sprint_fields \in [1..Len(sprint_field_candidates) -> SprintFieldShapes]
    /\ sprint_result = NoSprintResult
    /\ CorrIdle
    /\ ReportIdle
    /\ ValueIdle
    /\ WorldIdle

SprintDetect ==
    /\ pc = "sprint_input"
    /\ sprint_result' = detect_sprint_info(sprint_fields)
    /\ pc' = "sprint_done"
    /\ UNCHANGED <<tasks, analysis_vars, world_vars, git_vars, sprint_fields, corr_vars, report_vars, value_vars>>

SprintNext == SprintDetect

SpecSprint == SprintInit /\ [][SprintNext]_vars

(***************************************************************************)
(* The correlator on its own: one task id against a list of repositories.  *)
(***************************************************************************)
ReposInit ==
    /\ tasks = <<>>
    /\ categories = <<>>
    /\ uncategorized = <<>>
    /\ metrics = NoMetrics
    /\ pc = "corr_input"
    /\ git_commits = <<>>
    /\ git_time = NoTime
    /\ SprintIdle
    /\ repo_paths \in SeqsUpTo(RepoPaths, MaxRepos)
    /\ repos \in RepoWorlds
    /\ issues = <<>>
    /\ log = <<>>
    /\ corr_task_id \in CorrTaskIds
    /\ corr_multi = NoCorrResult
    /\ corr_task = NoCorrResult
    /\ tracker = "ok"
    /\ ReportIdle
    /\ ValueIdle

Correlate ==
    /\ pc = "corr_input"
    /\ corr_multi' = fetch_commits_from_multiple_repos(repo_paths, corr_task_id, repos)
    /\ corr_task' = fetch_task_commits(repo_paths, corr_task_id, repos)
    /\ pc' = "corr_done"
    /\ UNCHANGED <<tasks, analysis_vars, world_vars, git_vars, sprint_vars, corr_task_id, report_vars, value_vars>>

ReposNext == Correlate

SpecRepos == ReposInit /\ [][ReposNext]_vars

(***************************************************************************)
(* Properties of the Time Estimator.                                       *)
(***************************************************************************)
Estimated(i) == tasks[i].time # NoTime

HasCommits(i) == tasks[i].commits # <<>>

\* no logged time, no aggregate time
NoTrackerTime(i) ==
    tasks[i].jira_time_spent = Zero /\ tasks[i].jira_aggregate_time = Zero

\* the fourth rule applies: nothing from the tracker at all
CommitDerived(i) == NoTrackerTime(i) /\ tasks[i].jira_time_estimate = Zero

\* C1: logged time > 0 is returned as it is; with no logged time an
\* aggregate time > 0 is returned as it is; estimate, commits, title, type
\* and priority play no part.
C1_TrackerTimeFirst ==
    \A i \in 1..Len(tasks) : Estimated(i) =>
        /\ RLt(Zero, tasks[i].jira_time_spent) =>
               tasks[i].time = tasks[i].jira_time_spent
        /\ (tasks[i].jira_time_spent = Zero /\ RLt(Zero, tasks[i].jira_aggregate_time)) =>
               tasks[i].time = tasks[i].jira_aggregate_time

\* logged 3h next to aggregate 5h, estimate 10h and commits: 3h is returned
C1_Witness ==
    \E i \in 1..Len(tasks) :
        /\ Estimated(i) /\ HasCommits(i)
        /\ tasks[i].jira_time_spent = <<3, 1>>
        /\ tasks[i].jira_aggregate_time = <<5, 1>>
        /\ tasks[i].jira_time_estimate = <<10, 1>>
        /\ tasks[i].time = <<3, 1>>

\* C2: with no tracker time and an original estimate E > 0 the result is E
\* when commits exist and E * 0.2 when there are none (E = 10 gives 2.0).
C2_OriginalEstimateRule ==
    \A i \in 1..Len(tasks) :
        (Estimated(i) /\ NoTrackerTime(i) /\ RLt(Zero, tasks[i].jira_time_estimate)) =>
            /\ HasCommits(i) => tasks[i].time = tasks[i].jira_time_estimate
            /\ ~HasCommits(i) =>
                   /\ tasks[i].time = Rat(tasks[i].jira_time_estimate[1] * 2,
                                          tasks[i].jira_time_estimate[2] * 10)
                   /\ tasks[i].jira_time_estimate = <<10, 1>> => tasks[i].time = <<2, 1>>

\* estimate 10h, no commits: 2.0h
C2_Witness ==
    \E i \in 1..Len(tasks) :
        /\ Estimated(i) /\ NoTrackerTime(i) /\ ~HasCommits(i)
        /\ tasks[i].jira_time_estimate = <<10, 1>>
        /\ tasks[i].time = <<2, 1>>

\* C3: the estimated hours are never negative.
C3_NonNegative ==
    \A i \in 1..Len(tasks) : Estimated(i) => tasks[i].time[1] >= 0 /\ tasks[i].time[2] > 0

\* a commit-derived estimate that the type minimum raised
C3_Witness ==
    \E i \in 1..Len(tasks) :
        /\ Estimated(i) /\ CommitDerived(i) /\ HasCommits(i)
        /\ tasks[i].time = get_minimum_task_time(tasks[i].type)

\* the task fields that are not inputs of the estimator, and values they
\* may hold when the estimator runs
OtherFieldValues ==
    [ id : { <<"P","R","O","J","-","5">>, <<"O","P","S","-","7">> },
      status : { <<"D","o","n","e">>, <<"C","l","o","s","e","d">> },
      time : { NoTime, <<99, 10>> } ]

RealisticMultiplier(complexity, priority) ==
    RAdd(RAdd(Dec(2, 5), RSub(complexity, Dec(1, 0))), RSub(priority, Dec(1, 0)))

\* the priority multiplier as the specification states it
StatedPriorityMultiplier(priority) ==
    LET p == Lower(priority)
    IN  CASE p = <<"h","i","g","h","e","s","t">> -> Dec(1, 3)
          [] p = <<"c","r","i","t","i","c","a","l">> -> Dec(1, 3)
          [] p = <<"h","i","g","h">> -> Dec(1, 1)
          [] OTHER -> Dec(1, 0)

\* C5: with nothing from the tracker and at least one commit the estimate
\* is max(git_time * (2.5 + (complexity - 1) + (priority - 1)), minimum),
\* priority being 1.3 for highest/critical, 1.1 for high, 1.0 otherwise and
\* git_time 1.0 for one commit; one commit, type Task, priority Medium and
\* no complexity keyword give 2.7 hours.
C5_CommitDerivedEstimate ==
    \A i \in 1..Len(tasks) : (Estimated(i) /\ CommitDerived(i) /\ HasCommits(i)) =>
        LET t == tasks[i]
            git_t == IF Len(t.commits) = 1 THEN Dec(1, 0)
                     ELSE estimate_git_commit_time(t.commits)
            complexity == get_complexity_multiplier(t.title, t.type)
            multiplier == RealisticMultiplier(complexity, StatedPriorityMultiplier(t.priority))
        IN  /\ t.time = RMax(RMul(git_t, multiplier), get_minimum_task_time(t.type))
            /\ (/\ Len(t.commits) = 1
                /\ Lower(t.type) = <<"t","a","s","k">>
                /\ Lower(t.priority) = <<"m","e","d","i","u","m">>
                /\ complexity = Dec(1, 2)) =>
                   multiplier = <<27, 10>> /\ t.time = <<27, 10>>

\* one commit, type Task, priority Medium, title 'Write docs': 2.7 hours
C5_Witness ==
    \E i \in 1..Len(tasks) :
        /\ Estimated(i) /\ CommitDerived(i) /\ Len(tasks[i].commits) = 1
        /\ tasks[i].title = <<"W","r","i","t","e"," ","d","o","c","s">>
        /\ tasks[i].type = <<"T","a","s","k">>
        /\ tasks[i].priority = <<"M","e","d","i","u","m">>
        /\ tasks[i].time = <<27, 10>>

\* the complexity multiplier as the specification states it: the first of
\* high, medium, simple that matches the lowercased title, then the type
StatedComplexityMultiplier(title, type) ==
    LET high == AnyKeyword(high_complexity_keywords, Lower(title))
        medium == AnyKeyword(medium_complexity_keywords, Lower(title))
        simple == AnyKeyword(simple_keywords, Lower(title))
        story_or_epic == Contains(<<"s","t","o","r","y">>, Lower(type)) \/ Contains(<<"e","p","i","c">>, Lower(type))
    IN  CASE high -> Dec(1, 8)
          [] ~high /\ medium -> Dec(1, 4)
          [] ~high /\ ~medium /\ simple -> Dec(1, 0)
          [] ~high /\ ~medium /\ ~simple /\ story_or_epic -> Dec(1, 6)
          [] OTHER -> Dec(1, 2)

\* C7: the complexity multiplier that enters a commit-derived estimate is
\* the one of the first matching keyword set in the order high (1.8),
\* medium (1.4), simple (1.0), then story/epic type (1.6), then 1.2; the
\* type counts only when the title matches no keyword set.
C7_ComplexityOrder ==
    \A i \in 1..Len(tasks) : (Estimated(i) /\ CommitDerived(i) /\ HasCommits(i)) =>
        LET t == tasks[i]
            multiplier == RealisticMultiplier(StatedComplexityMultiplier(t.title, t.type),
                                              get_priority_multiplier(t.priority))
        IN  t.time = RMax(RMul(estimate_git_commit_time(t.commits), multiplier),
                          get_minimum_task_time(t.type))

\* a title matching a high, a medium and a simple keyword, type Task,
\* priority Highest, one commit: 1.0 * (2.5 + 0.8 + 0.3) = 3.6
C7_Witness ==
    \E i \in 1..Len(tasks) :
        /\ Estimated(i) /\ CommitDerived(i) /\ Len(tasks[i].commits) = 1
        /\ AnyKeyword(high_complexity_keywords, Lower(tasks[i].title))
        /\ AnyKeyword(medium_complexity_keywords, Lower(tasks[i].title))
        /\ AnyKeyword(simple_keywords, Lower(tasks[i].title))
        /\ tasks[i].type = <<"T","a","s","k">>
        /\ tasks[i].priority = <<"H","i","g","h","e","s","t">>
        /\ tasks[i].time = <<18, 5>>

\* the type minimum as the specification states it, Bug before Task
StatedMinimum(type) ==
    LET ty == Lower(type)
    IN  CASE Contains(<<"e","p","i","c">>, ty) -> Dec(8, 0)
          [] Contains(<<"s","t","o","r","y">>, ty) -> Dec(4, 0)
          [] Contains(<<"b","u","g">>, ty) -> Dec(3, 0)
          [] OTHER -> Dec(2, 0)

\* the type minimum in the order epic, story, task, bug
OrderedMinimum(type) ==
    LET ty == Lower(type)
        epic == Contains(<<"e","p","i","c">>, ty)
        story == Contains(<<"s","t","o","r","y">>, ty)
        task == Contains(<<"t","a","s","k">>, ty)
        bug == Contains(<<"b","u","g">>, ty)
    IN  CASE epic -> Dec(8, 0)
          [] ~epic /\ story -> Dec(4, 0)
          [] ~epic /\ ~story /\ task -> Dec(2, 0)
          [] ~epic /\ ~story /\ ~task /\ bug -> Dec(3, 0)
          [] OTHER -> Dec(2, 0)

\* C8 as stated: a commit-derived estimate with commits is never below 8.0
\* (Epic), 4.0 (Story), 3.0 (every type containing 'bug'), 2.0 (other).
C8_Original ==
    \A i \in 1..Len(tasks) : (Estimated(i) /\ CommitDerived(i) /\ HasCommits(i)) =>
        RLe(StatedMinimum(tasks[i].type), tasks[i].time)

\* C8 (amended): a commit-derived estimate with commits is never below the
\* type minimum, found in the order epic 8.0, story 4.0, task 2.0, bug 3.0,
\* default 2.0: a type containing 'bug' has the 3.0 floor when it contains
\* none of 'epic', 'story', 'task'.
C8_TypeMinimumFloor ==
    \A i \in 1..Len(tasks) : (Estimated(i) /\ CommitDerived(i) /\ HasCommits(i)) =>
        /\ RLe(OrderedMinimum(tasks[i].type), tasks[i].time)
        /\ (/\ Contains(<<"b","u","g">>, Lower(tasks[i].type))
            /\ ~Contains(<<"e","p","i","c">>, Lower(tasks[i].type))
            /\ ~Contains(<<"s","t","o","r","y">>, Lower(tasks[i].type))
            /\ ~Contains(<<"t","a","s","k">>, Lower(tasks[i].type))) => RLe(Dec(3, 0), tasks[i].time)

\* type 'Bug Sub-task', two commits far apart: the estimate is the 2.0 floor
C8_Witness ==
    \E i \in 1..Len(tasks) :
        /\ Estimated(i) /\ CommitDerived(i) /\ Len(tasks[i].commits) = 2
        /\ tasks[i].type = <<"B","u","g"," ","S","u","b","-","t","a","s","k">>
        /\ tasks[i].time = <<2, 1>>

\* base_time by type: 6.0 Epic, 3.0 Story, 1.5 otherwise
TypeBase(type) ==
    CASE Contains(<<"e","p","i","c">>, Lower(type)) -> Dec(6, 0)
      [] ~Contains(<<"e","p","i","c">>, Lower(type)) /\ Contains(<<"s","t","o","r","y">>, Lower(type)) -> Dec(3, 0)
      [] OTHER -> Dec(1, 5)

StatedPlanningKeywords ==
    << <<"r","e","s","e","a","r","c","h">>, <<"a","n","a","l","y","s","i","s">>, <<"p","l","a","n","n","i","n","g">>, <<"d","e","s","i","g","n">> >>

\* C9 as stated: with nothing from the tracker and no commits the estimate
\* is base_time * 0.3, base_time being 4.0 exactly when the title contains
\* research, analysis, planning or design; without these and with a type
\* that is neither Epic nor Story it is 0.45.
C9_Original ==
    \A i \in 1..Len(tasks) : (Estimated(i) /\ CommitDerived(i) /\ ~HasCommits(i)) =>
        LET t == tasks[i]
            planning == AnyKeyword(StatedPlanningKeywords, Lower(t.title))
        IN  /\ t.time = RMul(IF planning THEN Dec(4, 0) ELSE TypeBase(t.type), Dec(0, 3))
            /\ (~planning /\ TypeBase(t.type) = Dec(1, 5)) => t.time = <<9, 20>>

\* C9 (amended): the same with five keywords: research, analysis, planning,
\* design and spec.
C9_BaseTimeNoCommits ==
    \A i \in 1..Len(tasks) : (Estimated(i) /\ CommitDerived(i) /\ ~HasCommits(i)) =>
        LET t == tasks[i]
            planning == AnyKeyword(Append(StatedPlanningKeywords, <<"s","p","e","c">>), Lower(t.title))
        IN  /\ t.time = RMul(IF planning THEN Dec(4, 0) ELSE TypeBase(t.type), Dec(0, 3))
            /\ (~planning /\ TypeBase(t.type) = Dec(1, 5)) => t.time = <<9, 20>>

\* title 'Spec review', type Epic, no commits: 4.0 * 0.3 = 1.2
C9_Witness ==
    \E i \in 1..Len(tasks) :
        /\ Estimated(i) /\ CommitDerived(i) /\ ~HasCommits(i)
        /\ tasks[i].title = <<"S","p","e","c"," ","r","e","v","i","e","w">>
        /\ tasks[i].type = <<"E","p","i","c">>
        /\ tasks[i].time = <<6, 5>>

(***************************************************************************)
(* Properties of the Business Classifier.                                  *)
(***************************************************************************)
Members(k) == { categories[k].tasks[j] : j \in 1..Len(categories[k].tasks) }

\* the categories with a keyword in lowercase(title + ' ' + type)
Matching(task) ==
    { k \in 1..Len(get_business_categories) :
        AnyKeyword(get_business_categories[k].keywords,
                   Lower(task.title \o <<" ">> \o task.type)) }

StatedCategoryOrder ==
    << "Revenue & Sales", "User Experience", "Security & Compliance",
       "Operational Efficiency", "Platform Stability", "Feature Expansion" >>

\* C10: a task goes to the first category, in the order Revenue & Sales,
\* User Experience, Security & Compliance, Operational Efficiency, Platform
\* Stability, Feature Expansion, with a keyword in lowercase(title + ' ' +
\* type), and to that one only; 'login' without a Revenue & Sales keyword
\* means User Experience, whatever else matches.
C10_FirstCategoryWins ==
    pc = "analyzed" =>
        /\ \A k \in 1..Len(categories) : categories[k].impact = StatedCategoryOrder[k]
        /\ \A i \in 1..Len(tasks) :
               LET matching == Matching(tasks[i])
               IN  /\ matching # {} =>
                          \A k \in 1..Len(categories) :
                              tasks[i] \in Members(k) <=> k = MinOf(matching)
                   /\ (Contains(<<"l","o","g","i","n">>, Lower(tasks[i].title \o <<" ">> \o tasks[i].type))
                       /\ 1 \notin matching) =>
                          /\ tasks[i] \in Members(2)
                          /\ categories[2].impact = "User Experience"

\* 'Fix login redirect issue' of type Bug is in User Experience and not in
\* Platform Stability, whose keywords bug, fix and issue all match
C10_Witness ==
    /\ pc = "analyzed"
    /\ \E i \in 1..Len(tasks) :
           /\ tasks[i].title = <<"F","i","x"," ","l","o","g","i","n"," ","r","e","d","i","r","e","c","t"," ","i","s","s","u","e">>
           /\ tasks[i].type = <<"B","u","g">>
           /\ tasks[i] \in Members(2)
           /\ tasks[i] \notin Members(5)
           /\ 5 \in Matching(tasks[i])

(***************************************************************************)
(* Properties of estimate_git_commit_time (SpecGit).                       *)
(***************************************************************************)
\* latest minus earliest authored time of git_commits, in hours
SpanHours == Rat(MaxOf(Authored(git_commits)) - MinOf(Authored(git_commits)), 60)

\* C6: for n >= 2 commits the git time is max(n * 0.5, 1.0) when span < 0.5,
\* max(span * 1.2, 1.5) when 0.5 <= span < 2, min((n / (span / 24)) * 2.0, 8.0)
\* when span > 24, and min(max(span * 1.3, 2.0), 8.0) otherwise (span = 2 and
\* span = 24 included).
C6_GitTimeBranches ==
    (pc = "git_done" /\ Len(git_commits) >= 2) =>
        LET n == Rat(Len(git_commits), 1)
            span == SpanHours
        IN  CASE RLt(span, Dec(0, 5)) ->
                     git_time = RMax(RMul(n, Dec(0, 5)), Dec(1, 0))
              [] RLe(Dec(0, 5), span) /\ RLt(span, Dec(2, 0)) ->
                     git_time = RMax(RMul(span, Dec(1, 2)), Dec(1, 5))
              [] RLt(Dec(24, 0), span) ->
                     git_time = RMin(RMul(RDiv(n, RDiv(span, Dec(24, 0))), Dec(2, 0)), Dec(8, 0))
              [] OTHER ->
                     git_time = RMin(RMax(RMul(span, Dec(1, 3)), Dec(2, 0)), Dec(8, 0))

\* two commits exactly two hours apart: 2 * 1.3 = 2.6
C6_Witness ==
    /\ pc = "git_done"
    /\ Len(git_commits) = 2
    /\ SpanHours = <<2, 1>>
    /\ git_time = <<13, 5>>

Range(s) == { s[i] : i \in 1..Len(s) }

\* the identifier occurs in the message as a literal substring
Mentions(task_id, message) ==
    \E i \in 0..(Len(message) - Len(task_id)) :
        SubSeq(message, i + 1, i + Len(task_id)) = task_id

\* the commits of one repository that belong to the task
MatchingCommits(path, task_id) ==
    { c \in Range(repos[path].commits) : c.in_window /\ Mentions(task_id, c.message) }

Accessible(k) == ~AccessRaises(repos, repo_paths[k], corr_task_id)

RECURSIVE SumCounts(_)
SumCounts(d) == IF d = <<>> THEN 0 ELSE d[1][2] + SumCounts(Tail(d))

RECURSIVE ConcatMatching(_, _, _)
ConcatMatching(paths, task_id, world) ==
    IF paths = <<>> THEN <<>>
    ELSE (IF AccessRaises(world, paths[1], task_id) THEN <<>>
          ELSE SelectSeq(world[paths[1]].commits,
                         LAMBDA c : c.in_window /\ Mentions(task_id, c.message)))
         \o ConcatMatching(Tail(paths), task_id, world)

\* C13: for every list of repository paths the correlator returns the
\* matching commits of the repositories concatenated in the order of the
\* paths, and the counts in the returned map sum to the length of the
\* returned commit list.
C13_CountsSumToLength ==
    pc = "corr_done" =>
        /\ corr_multi.commits = ConcatMatching(repo_paths, corr_task_id, repos)
        /\ SumCounts(corr_multi.repo_sources) = Len(corr_multi.commits)


(***************************************************************************)
(* Properties of the pipeline (SpecMain).                                  *)
(***************************************************************************)
Analyzed == pc \in { "analyzed", "reported" }

\* the seven buckets, one after the other
RECURSIVE BucketsFrom(_)
BucketsFrom(k) ==
    IF k > Len(categories) THEN uncategorized
    ELSE categories[k].tasks \o BucketsFrom(k + 1)

Count(x, s) == Cardinality({ i \in 1..Len(s) : s[i] = x })

\* C11: after analyze_business_impact every input task appears exactly once
\* across the six category member lists and the uncategorized list: no
\* task is in two categories, no categorized task is uncategorized, no task
\* is dropped, and the sizes of the seven buckets sum to the number of tasks.
C11_ExactlyOneBucket ==
    Analyzed =>
        /\ Len(categories) = 6
        /\ Len(BucketsFrom(1)) = Len(tasks)
        /\ \A t \in Range(tasks) \cup Range(BucketsFrom(1)) :
               Count(t, BucketsFrom(1)) = Count(t, tasks)

\* two tasks, one in a category and one in no category
C11_Witness ==
    /\ pc = "analyzed"
    /\ Len(tasks) = 2
    /\ tasks[1] # tasks[2]
    /\ uncategorized = <<tasks[2]>>
    /\ \E k \in 1..Len(categories) : categories[k].tasks = <<tasks[1]>>

AccessFails(i) ==
    \E k \in 1..Len(repo_paths) : tasks[i].id \in repos[repo_paths[k]].fails_for

\* C15: in process_task_commits, with one repository or several, if
\* repository access fails for task k then every other task still ends
\* with its commits, repo_sources and time set.
C15_OtherTasksComplete ==
    pc \in { "processed", "raised", "analyzed", "reported" } =>
        \A k \in 1..Len(tasks) : AccessFails(k) =>
            \A i \in 1..Len(tasks) : (i # k /\ ~AccessFails(i)) =>
                /\ tasks[i].time # NoTime
                /\ tasks[i].repo_sources # NoRepoSources

\* C16: when the tracker returns zero tasks the run stops: no commit
\* analysis, business analysis or report generation follows an empty task
\* list.
C16_EmptyTaskListIsFatal ==
    pc \in { "processed", "analyzed", "reported" } => tasks # <<>>

\* has a commit, or status done, closed or resolved in any case
Completed(task) ==
    \/ task.commits # <<>>
    \/ Lower(task.status) \in { <<"d","o","n","e">>, <<"c","l","o","s","e","d">>, <<"r","e","s","o","l","v","e","d">> }

\* C17: completed_tasks of the metrics is the number of tasks with at
\* least one commit or with status done, closed or resolved.
C17_CompletedByCommitOrStatus ==
    Analyzed =>
        metrics.completed_tasks = Cardinality({ i \in 1..Len(tasks) : Completed(tasks[i]) })

\* C18: completion_rate is completed_tasks / total_tasks * 100 for a
\* non-empty task list and 0 for an empty one, and lies between 0 and 100.
C18_CompletionRate ==
    Analyzed =>
        /\ metrics.total_tasks = Len(tasks)
        /\ tasks # <<>> =>
               metrics.completion_rate = Rat(metrics.completed_tasks * 100, metrics.total_tasks)
        /\ tasks = <<>> => metrics.completion_rate = Zero
        /\ RLe(Zero, metrics.completion_rate)
        /\ RLe(metrics.completion_rate, <<100, 1>>)

\* one task of two has commits: 50 percent
C18_Witness ==
    /\ pc = "analyzed"
    /\ metrics.total_tasks = 2
    /\ metrics.completed_tasks = 1
    /\ metrics.completion_rate = <<50, 1>>

\* C19: an issue of the assignee with a missing priority becomes a task
\* with priority 'Medium', and one whose date fields cannot be parsed is
\* included in the task list.
C19_SafeDefaults ==
    pc \in { "fetched", "processed", "raised", "analyzed", "reported" } =>
        \A k \in 1..Len(issues) :
            LET issue == issues[k]
                dates == { issue.created, issue.updated, issue.resolved }
            IN  parse_assignee_info(issue.assignee, TargetAssignee) =>
                    /\ (issue.priority.kind = "none" /\ is_task_in_date_range(issue, StartDay, EndDay)) =>
                           \E i \in 1..Len(tasks) :
                               tasks[i].id = issue.key /\ tasks[i].priority = <<"M","e","d","i","u","m">>
                    /\ (\A d \in dates : d.kind \in { "none", "unparseable" }) =>
                           \E i \in 1..Len(tasks) : tasks[i].id = issue.key


(***************************************************************************)
(* Further properties of the estimator, the classifier and the correlator. *)
(***************************************************************************)
\* C25: every estimate is strictly positive: after process_task_commits no
\* task has time 0, the average time of the completed tasks that
\* analyze_velocity_insights divides by is not 0, and format_task_header
\* never takes its 'no time estimated' branch.
C25_StrictlyPositive ==
    \A i \in 1..Len(tasks) : Estimated(i) =>
        /\ RLt(Zero, tasks[i].time)
        /\ format_task_header(tasks[i]) = "hours"
        /\ IsCompleted(tasks[i]) => RLt(Zero, avg_completion_time(tasks))

\* the smallest estimate: a Bug without commits and without tracker time
C25_Witness ==
    \E i \in 1..Len(tasks) :
        /\ Estimated(i) /\ CommitDerived(i) /\ ~HasCommits(i)
        /\ IsCompleted(tasks[i])
        /\ tasks[i].time = RMul(get_base_task_time(tasks[i].title, tasks[i].type), Dec(0, 3))
        /\ RLt(tasks[i].time, Dec(0, 5))

C28_BugAndStoryAlwaysCategorized ==
    Analyzed =>
        \A j \in 1..Len(uncategorized) :
            /\ ~Contains(<<"b","u","g">>, Lower(uncategorized[j].type))
            /\ ~Contains(<<"s","t","o","r","y">>, Lower(uncategorized[j].type))

\* a Story whose title has no keyword is in Feature Expansion
C28_Witness ==
    /\ pc = "analyzed"
    /\ \E i \in 1..Len(tasks) :
           /\ tasks[i].type = <<"S","t","o","r","y">>
           /\ tasks[i].title = <<"W","r","i","t","e"," ","d","o","c","s">>
           /\ categories[6].tasks = <<tasks[i]>>
    /\ uncategorized = <<>>

\* a task of the correlator's task id, to compare estimates
SampleTask(commits) ==
    [ TaskRecord(corr_task_id, <<"W","r","i","t","e"," ","d","o","c","s">>, <<"T","a","s","k">>, <<"M","e","d","i","u","m">>, <<"D","o","n","e">>,
                 SprintPair(PyNone, "Unknown"), extract_time_fields(0, 0, 0))
        EXCEPT !.commits = commits ]

\* C30: on one accessible repository the single-repository branch of
\* process_task_commits sets the commits and repo_sources that
\* fetch_commits_from_multiple_repos returns for the one-element list (an
\* empty map when no commit matches, else one entry keyed by the last
\* path segment with the commit count), and the time estimate is the same.
C30_SingleEqualsMulti ==
    (pc = "corr_done" /\ Len(repo_paths) = 1
        /\ ~AccessRaises(repos, repo_paths[1], corr_task_id)) =>
        /\ ~corr_task.raised
        /\ corr_task.commits = corr_multi.commits
        /\ corr_task.repo_sources = corr_multi.repo_sources
        /\ corr_task.repo_sources =
               IF corr_task.commits = <<>> THEN <<>>
               ELSE << <<LastSegment(repo_paths[1]), Len(corr_task.commits)>> >>
        /\ get_final_time_estimate(SampleTask(corr_task.commits), corr_task.commits)
               = get_final_time_estimate(SampleTask(corr_multi.commits), corr_multi.commits)

C30_Witness ==
    /\ pc = "corr_done"
    /\ repo_paths = <<PathApi>>
    /\ corr_task_id = <<"P","R","O","J","-","5">>
    /\ ~corr_task.raised
    /\ corr_task.repo_sources = << <<<<"a","p","i">>, 1>> >>
    /\ corr_multi = corr_task


(***************************************************************************)
(* Properties of the report: the narrative and the time sources.           *)
(***************************************************************************)
\* the results of generate_summary that the report holds
SummariesOfReport ==
    { s \in { report.summary, report.stakeholder.ai_summary } : s # NoSummary }

Failed(client) == client.state \in { "raises", "no_content" }

AppliedRule(task) ==
    IF RLt(Zero, task.jira_time_spent) /\ task.time = task.jira_time_spent
    THEN "logged"
    ELSE IF /\ task.jira_time_spent = Zero
            /\ RLt(Zero, task.jira_aggregate_time)
            /\ task.time = task.jira_aggregate_time
    THEN "aggregate"
    ELSE IF /\ task.jira_time_spent = Zero /\ task.jira_aggregate_time = Zero
            /\ RLt(Zero, task.jira_time_estimate)
            /\ task.time = IF task.commits # <<>> THEN task.jira_time_estimate
                            ELSE RMul(task.jira_time_estimate, Dec(0, 2))
    THEN "estimate"
    ELSE IF /\ task.jira_time_spent = Zero /\ task.jira_aggregate_time = Zero
            /\ task.jira_time_estimate = Zero
            /\ task.time = estimate_realistic_time(task.commits, task.title, task.type,
                                                   task.priority)
    THEN "commits"
    ELSE "none"

CountRule(rules) == Cardinality({ i \in 1..Len(tasks) : AppliedRule(tasks[i]) \in rules })

\* C27: the time sources of the report agree with the rule that gave each
\* task its time: the three counts sum to the total, jira_logged counts
\* the tasks whose time is the logged or the aggregate time, jira_estimated
\* those whose time comes from the original estimate, git_estimated those
\* whose time is the commit-derived fallback.
C27_TimeSourceAgrees ==
    (pc = "reported" /\ report.stakeholder.present) =>
        LET sources == report.stakeholder.time_sources
        IN  /\ sources.total = Len(tasks)
            /\ sources.jira_logged + sources.jira_estimated + sources.git_estimated
                   = sources.total
            /\ sources.jira_logged = CountRule({ "logged", "aggregate" })
            /\ sources.jira_estimated = CountRule({ "estimate" })
            /\ sources.git_estimated = CountRule({ "commits" })

C27_Witness ==
    /\ pc = "reported"
    /\ Len(tasks) = 3
    /\ AppliedRule(tasks[1]) = "aggregate" /\ RLt(Zero, tasks[1].jira_time_estimate)
    /\ AppliedRule(tasks[2]) = "estimate" /\ tasks[2].commits = <<>>
    /\ AppliedRule(tasks[3]) = "commits"
    /\ report.stakeholder.time_sources =
           [ jira_logged |-> 1, jira_estimated |-> 1, git_estimated |-> 1, total |-> 3 ]


(***************************************************************************)
(* Properties of the run of main() when the tracker fails.                 *)
(***************************************************************************)
\* fetch_tasks has returned or raised
Queried == pc \notin { "start", "aborted", "validated" }

\* C22: when the primary query fails, fetch_tasks goes on with the
\* fallback query: the failure is not fatal, and every issue of the
\* fallback answer that is assigned to the target assignee and passes the
\* date filter becomes a TaskRecord of the returned list.
C22_FallbackKeepsAssignedIssues ==
    (Queried /\ tracker = "primary_fails") =>
        /\ pc # "fetch_raised"
        /\ \A k \in 1..Len(issues) :
               ( /\ parse_assignee_info(issues[k].assignee, TargetAssignee)
                 /\ is_task_in_date_range(MinimalFields(issues[k]), StartDay, EndDay) )
               => \E i \in 1..Len(tasks) : tasks[i].id = issues[k].key


\* C23: every task handed over with the report has its repo_sources, time
\* and business_category set (commits is empty or set), and the stages ran
\* in order: no task is classified or reported before its time is set.
C23_FinalizedRecords ==
    /\ Analyzed => \A i \in 1..Len(tasks) : Estimated(i)
    /\ pc = "reported" =>
           \A i \in 1..Len(tasks) :
               /\ tasks[i].repo_sources # NoRepoSources
               /\ tasks[i].time # NoTime
               /\ tasks[i].business_category # NoCategory


(***************************************************************************)
(* Properties of the business-value sentences and of the impact analysis.  *)
(***************************************************************************)
\* the verb at position i with up to 3 of the words after it
StatedPhrase(words, i) ==
    Join(SubSeq(words, i, IF i + 3 < Len(words) THEN i + 3 ELSE Len(words)))

\* C24: the action phrases of a title are, for every action verb followed
\* by at least one word, the verb with up to 3 of the words after it; and
\* when no phrase is found and the category has no sentence for the title,
\* the result is the generic sentence 'Delivered <cleaned title>' with the
\* identifier prefixes stripped.
C24_ActionPhraseOrGeneric ==
    pc = "value_done" =>
        LET words == Split(Lower(value_title))
            verbs == { i \in 1..Len(words) : words[i] \in action_words /\ i < Len(words) }
            phrases == value_result.object_words
        IN  /\ \A i \in verbs : \E k \in 1..Len(phrases) : phrases[k] = StatedPhrase(words, i)
            /\ \A k \in 1..Len(phrases) : \E i \in verbs : phrases[k] = StatedPhrase(words, i)
            /\ ( /\ phrases = <<>>
                 /\ apply_handler(category_handlers(value_category), Lower(value_title), <<>>) = <<>> )
               => value_result.value =
                      <<"D","e","l","i","v","e","r","e","d"," ">>
                      \o Lower(Remove(Remove(Remove(value_title, <<"T","D","-">>), <<"S","S","W","-">>), <<"P","R","O","J","-">>))
                      \o <<" ","t","o"," ","i","m","p","r","o","v","e"," ","p","l","a","t","f","o","r","m"," ","f","u","n","c","t","i","o","n","a","l","i","t","y"," ","a","n","d"," ","u","s","e","r"," ","e","x","p","e","r","i","e","n","c","e">>

\* the section of the impact analysis of a category
SectionOf(category) ==
    LET sections == report.stakeholder.impact_analysis
    IN  sections[CHOOSE k \in 1..Len(sections) : sections[k].impact = category.impact]

Holds(s, x) == \E k \in 1..Len(s) : s[k] = x

\* C29: in every section of the impact analysis the tasks treated as
\* completed and the tasks counted as pending are disjoint and together
\* are the members of the category, and the completed figure of the
\* status line is the number of tasks treated as completed; a Done task
\* without commits is never an achievement and pending at once.
C29_CompletedAndPendingPartition ==
    (pc = "reported" /\ report.stakeholder.present) =>
        \A c \in 1..Len(categories) :
            categories[c].tasks # <<>> =>
                LET section == SectionOf(categories[c])
                IN  /\ \A j \in 1..Len(categories[c].tasks) :
                           Holds(section.completed_tasks, categories[c].tasks[j])
                           # Holds(section.pending_tasks, categories[c].tasks[j])
                    /\ section.completed = Len(section.completed_tasks)

====
